---------------------------- MODULE Spec2Model ----------------------------
(***************************************************************************)
(* A model of the bytecode frame of src/src/runtime/frame.rs: one frame    *)
(* (pc, operand stack, locals, return_v) executing a method's code, the    *)
(* thread's pending-exception slot, and the shared heap of arrays and      *)
(* instances the frame's references point to.                              *)
(*                                                                         *)
(* Every instruction handler of frame.rs is one action.  A handler is      *)
(* written as a function from the frame record (the state after the        *)
(* opcode byte was fetched) to the frame record it leaves, and the action  *)
(* commits that record to the variables.                                   *)
(***************************************************************************)
EXTENDS Integers, Sequences, FiniteSets, TLC

VARIABLES
    code,       \* Frame.code: the method's bytes (code[i+1] is offset i)
    table,      \* the method's exception handler table
    pc,         \* Frame.pc
    stack,      \* Frame.stack, top is the last element
    local,      \* Frame.local, local[i+1] is slot i
    return_v,   \* Frame.return_v, None when unset
    exception,  \* JavaThread.exception, None when nothing is pending
    heap,       \* the objects references point to, heap[id]
    status,     \* "running", or "panic" once a Rust panic ended the process
    step        \* what the last instruction step did (history, for the properties)

vars == <<code, table, pc, stack, local, return_v, exception, heap, status, step>>

---------------------------------------------------------------------------
(* Bounds of the model. *)

\* The instruction under test sits right behind its operand loads or at this offset.
OpAt == 10

\* The nops between the instruction under test and the method's return: room for
\* branch targets and exception handlers.
TailLen == 6

---------------------------------------------------------------------------
(* Two's-complement integers as little-endian byte vectors: b[1] is the    *)
(* least significant byte, Len(b) the width in bytes (4 for i32, 8 for     *)
(* i64).  The arithmetic is exact at the width; no number of the model     *)
(* exceeds what the byte columns of a product need.                        *)

Pow2 == <<1, 2, 4, 8, 16, 32, 64, 128>>

RECURSIVE BvOfInt(_, _)
BvOfInt(n, k) == IF k = 0 THEN <<>> ELSE <<n % 256>> \o BvOfInt(n \div 256, k - 1)

I32(n) == BvOfInt(n, 4)
I64(n) == BvOfInt(n, 8)

\* The signed value of a 4-byte vector.
BvToInt(b) ==
    b[1] + 256 * b[2] + 65536 * b[3]
         + 16777216 * (IF b[4] >= 128 THEN b[4] - 256 ELSE b[4])

\* Bit i (0 is the least significant) of a vector.
BvBit(b, i) == (b[(i \div 8) + 1] \div Pow2[(i % 8) + 1]) % 2
BvSign(b) == IF b[Len(b)] >= 128 THEN 1 ELSE 0
BvZero(k) == [i \in 1..k |-> 0]
BvIsZero(b) == \A i \in 1..Len(b) : b[i] = 0

\* The k-byte vector whose bit i is bit[i].
BvOfBits(bit, k) ==
    [j \in 1..k |->
        LET o == 8 * (j - 1)
        IN  bit[o] + 2 * bit[o + 1] + 4 * bit[o + 2] + 8 * bit[o + 3]
            + 16 * bit[o + 4] + 32 * bit[o + 5] + 64 * bit[o + 6] + 128 * bit[o + 7]]

BvNot(b) == [i \in 1..Len(b) |-> 255 - b[i]]
BvAnd(a, b) ==
    BvOfBits([i \in 0..(8 * Len(a) - 1) |-> IF BvBit(a, i) = 1 /\ BvBit(b, i) = 1 THEN 1 ELSE 0], Len(a))
BvOr(a, b) ==
    BvOfBits([i \in 0..(8 * Len(a) - 1) |-> IF BvBit(a, i) = 1 \/ BvBit(b, i) = 1 THEN 1 ELSE 0], Len(a))
BvXor(a, b) ==
    BvOfBits([i \in 0..(8 * Len(a) - 1) |-> IF BvBit(a, i) # BvBit(b, i) THEN 1 ELSE 0], Len(a))
BvShl(a, s) ==
    BvOfBits([i \in 0..(8 * Len(a) - 1) |-> IF i - s >= 0 THEN BvBit(a, i - s) ELSE 0], Len(a))
\* The arithmetic (sign-filling) right shift.
BvSar(a, s) ==
    BvOfBits([i \in 0..(8 * Len(a) - 1) |-> IF i + s < 8 * Len(a) THEN BvBit(a, i + s) ELSE BvSign(a)], Len(a))

RECURSIVE BvAddFrom(_, _, _, _)
BvAddFrom(a, b, i, c) ==
    IF i > Len(a) THEN <<>>
    ELSE LET s == a[i] + b[i] + c
         IN  <<s % 256>> \o BvAddFrom(a, b, i + 1, s \div 256)

BvAdd(a, b) == BvAddFrom(a, b, 1, 0)
BvSub(a, b) == BvAddFrom(a, BvNot(b), 1, 1)
BvNeg(a) == BvAddFrom(BvZero(Len(a)), BvNot(a), 1, 1)
BvExt(a, k) == [i \in 1..k |-> IF i <= Len(a) THEN a[i] ELSE 255 * BvSign(a)]

\* Column k of the schoolbook product: the sum of a[i] * b[k + 1 - i].
RECURSIVE BvColumn(_, _, _, _)
BvColumn(a, b, k, i) ==
    IF i > k THEN 0 ELSE a[i] * b[k + 1 - i] + BvColumn(a, b, k, i + 1)

RECURSIVE BvMulFrom(_, _, _, _)
BvMulFrom(a, b, k, c) ==
    IF k > Len(a) THEN <<>>
    ELSE LET s == BvColumn(a, b, k, 1) + c
         IN  <<s % 256>> \o BvMulFrom(a, b, k + 1, s \div 256)

\* The product wrapped to the width of the operands.
BvMul(a, b) == BvMulFrom(a, b, 1, 0)

\* Unsigned a < b, comparing from byte i down.
RECURSIVE BvULtFrom(_, _, _)
BvULtFrom(a, b, i) ==
    IF i = 0 THEN FALSE
    ELSE IF a[i] # b[i] THEN a[i] < b[i]
    ELSE BvULtFrom(a, b, i - 1)

BvULt(a, b) == BvULtFrom(a, b, Len(a))
BvSLt(a, b) == IF BvSign(a) # BvSign(b) THEN BvSign(a) = 1 ELSE BvULt(a, b)

\* One step of restoring division: qr = <<quotient so far, remainder>> takes bit
\* `bit` of the dividend; d is the divisor, one byte wider than the dividend.
BvDivStep(qr, d, bit) ==
    LET r == BvAddFrom(qr[2], qr[2], 1, bit)
        q == BvAddFrom(qr[1], qr[1], 1, 0)
    IN  IF BvULt(r, d) THEN <<q, r>> ELSE <<BvAddFrom(q, BvZero(Len(q)), 1, 1), BvSub(r, d)>>

\* The bits of byte j of the dividend n, most significant first.
RECURSIVE BvDivByte(_, _, _, _, _)
BvDivByte(qr, n, d, j, t) ==
    IF t < 0 THEN qr
    ELSE LET next == BvDivStep(qr, d, (n[j] \div Pow2[t + 1]) % 2)
         IN  IF Len(next[2]) = Len(d) THEN BvDivByte(next, n, d, j, t - 1) ELSE next

RECURSIVE BvUDivFrom(_, _, _)
BvUDivFrom(n, d, j) ==
    IF j > Len(n) THEN <<BvZero(Len(n)), BvZero(Len(n) + 1)>>
    ELSE BvDivByte(BvUDivFrom(n, d, j + 1), n, d, j, 7)

BvAbs(a) == IF BvSign(a) = 1 THEN BvNeg(a) ELSE a

\* Truncating signed quotient, wrapped to the width (MIN / -1 wraps to MIN).
BvSDiv(a, b) ==
    LET q == BvUDivFrom(BvAbs(a), BvAbs(b) \o <<0>>, 1)[1]
    IN  IF BvSign(a) # BvSign(b) THEN BvNeg(q) ELSE q

\* MIN / -1: the quotient does not fit the width.
BvDivOverflows(a, b) ==
    /\ a = BvShl(BvOfInt(1, Len(a)), 8 * Len(a) - 1)
    /\ b = BvOfInt(-1, Len(b))

---------------------------------------------------------------------------
(* Values (Oop): Int, Long, Float, Double, references, the canonical null. *)

None == [t |-> "none"]
IntV(b) == [t |-> "int", bits |-> b]
LongV(b) == [t |-> "long", bits |-> b]
RefV(id) == [t |-> "ref", id |-> id]

\* Floating-point numbers: NaN, the infinities, the zeros and the powers of two
\* (-1)^s * 2^e, on which IEEE division is exact.
Flt(k, sgn, e) == [k |-> k, s |-> sgn, e |-> e]
NaN == Flt("nan", 0, 0)
FloatV(x) == [t |-> "float", f |-> x]
DoubleV(x) == [t |-> "double", f |-> x]

\* The Rust test v == 0.0: true of both zeros, false of NaN.
FltIsZero(x) == x.k = "zero"

\* The IEEE quotient x / y.
FltDiv(x, y) ==
    LET sgn == IF x.s = y.s THEN 0 ELSE 1
    IN  CASE x.k = "nan" \/ y.k = "nan" -> NaN
          [] x.k = "inf" /\ y.k = "inf" -> NaN
          [] x.k = "zero" /\ y.k = "zero" -> NaN
          [] x.k = "inf" -> Flt("inf", sgn, 0)
          [] y.k = "inf" -> Flt("zero", sgn, 0)
          [] y.k = "zero" -> Flt("inf", sgn, 0)
          [] x.k = "zero" -> Flt("zero", sgn, 0)
          [] OTHER -> Flt("fin", sgn, x.e - y.e)
\* oop_consts::get_null(): the one shared null.
Null == RefV(0)

\* Heap objects: arrays (Oop::Array) with their elements and the number ext of
\* holders of the reference outside the frame (the invoker, a field, another
\* frame), and instances with a class and a message.
ArrayObj(elems, ext) == [kind |-> "array", elems |-> elems, ext |-> ext]
InstObj(cls, msg) == [kind |-> "inst", cls |-> cls, msg |-> msg]

\* The opcode bytes of the instructions the model executes (classfile::OpCode).
OpCode ==
    [nop |-> 0, aconst_null |-> 1, astore |-> 58, iload |-> 21, lload |-> 22, fload |-> 23, dload |-> 24, aload |-> 25,
     iaload |-> 46, laload |-> 47, faload |-> 48, daload |-> 49, aaload |-> 50,
     baload |-> 51, caload |-> 52, saload |-> 53,
     iastore |-> 79, lastore |-> 80, fastore |-> 81, dastore |-> 82, aastore |-> 83,
     bastore |-> 84, castore |-> 85, sastore |-> 86,
     iadd |-> 96, ladd |-> 97, isub |-> 100, lsub |-> 101, imul |-> 104, lmul |-> 105,
     idiv |-> 108, ldiv |-> 109, fdiv |-> 110, ddiv |-> 111, irem |-> 112, lrem |-> 113,
     frem |-> 114, drem |-> 115, ineg |-> 116, lneg |-> 117, fneg |-> 118, dneg |-> 119,
     ishl |-> 120, lshl |-> 121, ishr |-> 122, lshr |-> 123, iushr |-> 124, lushr |-> 125,
     iand |-> 126, land |-> 127, ior |-> 128, lor |-> 129, ixor |-> 130, lxor |-> 131,
     f2i |-> 139, f2l |-> 140, d2i |-> 142, d2l |-> 143,
     lcmp |-> 148, fcmpl |-> 149, fcmpg |-> 150, dcmpl |-> 151, dcmpg |-> 152,
     ifeq |-> 153, ifne |-> 154, iflt |-> 155, ifge |-> 156, ifgt |-> 157, ifle |-> 158,
     if_icmpeq |-> 159, if_icmpne |-> 160, if_icmplt |-> 161, if_icmpge |-> 162,
     if_icmpgt |-> 163, if_icmple |-> 164, if_acmpeq |-> 165, if_acmpne |-> 166,
     dup |-> 89, dup_x1 |-> 90, dup_x2 |-> 91, dup2 |-> 92, dup2_x1 |-> 93, dup2_x2 |-> 94,
     swap |-> 95, bipush |-> 16, iinc |-> 132, tableswitch |-> 170, lookupswitch |-> 171,
     invokevirtual |-> 182, invokespecial |-> 183, invokestatic |-> 184,
     invokeinterface |-> 185, invokedynamic |-> 186, new |-> 187, newarray |-> 188,
     anewarray |-> 189, checkcast |-> 192, instanceof |-> 193, multianewarray |-> 197,
     ireturn |-> 172, lreturn |-> 173, freturn |-> 174, dreturn |-> 175, areturn |-> 176,
     goto |-> 167, return_ |-> 177, getstatic |-> 178, putstatic |-> 179,
     getfield |-> 180, putfield |-> 181, athrow |-> 191, monitorenter |-> 194, monitorexit |-> 195,
     jsr |-> 168, ret |-> 169, wide |-> 196, goto_w |-> 200, jsr_w |-> 201, if_null |-> 198, if_non_null |-> 199]

---------------------------------------------------------------------------
(* The frame record: the variables as one value, which the handlers        *)
(* transform.  ret holds the value the last read_* returned.               *)

NewStep(name) ==
    [op |-> name, at |-> pc, pre |-> stack, heap0 |-> heap, taken |-> FALSE,
     branch |-> 0, log |-> <<>>, thrown |-> None, panic |-> ""]

Cur(name) ==
    [code |-> code, table |-> table, pc |-> pc, stack |-> stack, local |-> local,
     return_v |-> return_v, exception |-> exception, heap |-> heap,
     status |-> status, step |-> NewStep(name), ret |-> 0]

Commit(g) ==
    /\ code' = g.code
    /\ table' = g.table
    /\ pc' = g.pc
    /\ stack' = g.stack
    /\ local' = g.local
    /\ return_v' = g.return_v
    /\ exception' = g.exception
    /\ heap' = g.heap
    /\ status' = g.status
    /\ step' = g.step

\* A Rust panic: the process ends, nothing more of the frame runs.
Panic(f, msg) == [f EXCEPT !.status = "panic", !.step.panic = msg]
Log(f, e) == [f EXCEPT !.step.log = Append(@, e)]

\* Stack::push_*, Stack::pop_*: the value at depth k (0 is the top), and the
\* stack without its n top values.
Push(f, v) == [f EXCEPT !.stack = Append(@, v)]
Top(f, k) == f.stack[Len(f.stack) - k]
Drop(f, n) == [f EXCEPT !.stack = SubSeq(@, 1, Len(@) - n)]

\* The operand stack holds, top last, values of the types sig.
Typed(sig) ==
    /\ Len(stack) >= Len(sig)
    /\ \A i \in 1..Len(sig) : stack[Len(stack) - Len(sig) + i].t = sig[i]

read_i1(f) ==
    IF f.status = "panic" THEN f
    ELSE IF f.pc < 0 \/ f.pc >= Len(f.code) THEN Panic(f, "index out of bounds")
    ELSE [f EXCEPT !.ret = f.code[f.pc + 1], !.pc = @ + 1]

read_i2(f) ==
    LET a == read_i1(f)
        b == read_i1(a)
    IN  IF b.status = "panic" THEN b ELSE [b EXCEPT !.ret = a.ret * 256 + b.ret]

read_u1(f) ==
    IF f.status = "panic" THEN f
    ELSE IF f.pc < 0 \/ f.pc >= Len(f.code) THEN Panic(f, "index out of bounds")
    ELSE [f EXCEPT !.ret = f.code[f.pc + 1], !.pc = @ + 1]

---------------------------------------------------------------------------
(* Exceptions: the thread's pending slot, the handler table search and the *)
(* frame's dispatch.                                                       *)

goto_abs(f, target) == Log([f EXCEPT !.pc = target], "goto_abs")

\* C4 mutant: the exception is not recorded as the frame's result.
set_return_lost(f, v) == Log(f, "set_return")

set_return(f, v) == Log([f EXCEPT !.return_v = v], "set_return")

J_NPE == "java/lang/NullPointerException"
J_ARITHMETIC_EX == "java/lang/ArithmeticException"
J_ARRAY_INDEX_OUT_OF_BOUNDS == "java/lang/ArrayIndexOutOfBoundsException"

\* The classes a class can be caught as: itself and its superclasses.
Supers(cls) ==
    {cls, "java/lang/Throwable"} \cup
    CASE cls \in {J_NPE, J_ARITHMETIC_EX, "java/lang/IndexOutOfBoundsException"} ->
            {"java/lang/RuntimeException", "java/lang/Exception"}
      [] cls = J_ARRAY_INDEX_OUT_OF_BOUNDS ->
            {"java/lang/IndexOutOfBoundsException", "java/lang/RuntimeException",
             "java/lang/Exception"}
      [] cls = "java/lang/RuntimeException" -> {"java/lang/Exception"}
      [] cls = "java/io/IOException" -> {"java/lang/Exception"}
      [] cls = "java/io/FileNotFoundException" ->
            {"java/io/IOException", "java/lang/Exception"}
      [] OTHER -> {}

\* A handler table entry catches class cls thrown at offset at.
Catches(e, at, cls) ==
    /\ e.start_pc <= at /\ at < e.end_pc
    /\ e.catch_type = "any" \/ e.catch_type \in Supers(cls)

\* JavaThread::throw_ext*: a new exception object becomes the pending exception.
throw_ext(f, cls, msg) ==
    Log([f EXCEPT !.heap = Append(@, InstObj(cls, msg)),
                  !.exception = RefV(Len(f.heap) + 1)], "throw_ext")

\* JavaThread::clear_ext
clear_ext(f) == Log([f EXCEPT !.exception = None], "clear_ext")

\* JavaThread::try_handle_exception: the handler offset of the first entry, in
\* table order, that catches the exception at the faulting instruction; 0 if none.
RECURSIVE FirstHandler(_, _, _, _)
FirstHandler(tbl, i, at, cls) ==
    IF i > Len(tbl) THEN 0
    ELSE IF Catches(tbl[i], at, cls) THEN tbl[i].handler_pc
    ELSE FirstHandler(tbl, i + 1, at, cls)

try_handle_exception(f, rf) == FirstHandler(f.table, 1, f.step.at, f.heap[rf.id].cls)

RECURSIVE athrow(_)
RECURSIVE handle_exception(_)

handle_exception(f) ==
    LET a == Log([f EXCEPT !.stack = <<>>], "clear")
    IN  IF a.exception = None THEN Panic(a, "called Option::unwrap() on a None value")
        ELSE athrow(clear_ext(Log(Push(a, a.exception), "push_ext")))

\* C2 mutant: the last entry that catches is preferred to the first.
RECURSIVE LastHandler(_, _, _, _)
LastHandler(tbl, i, at, cls) ==
    IF i < 1 THEN 0
    ELSE IF Catches(tbl[i], at, cls) THEN tbl[i].handler_pc
    ELSE LastHandler(tbl, i - 1, at, cls)

athrow_last(f) ==
    LET rf == Top(f, 0)
        g == Drop(f, 1)
    IN  IF rf = Null
        THEN handle_exception(throw_ext(g, J_NPE, ""))
        ELSE LET handler == LastHandler(g.table, Len(g.table), g.step.at, g.heap[rf.id].cls)
                 s == Log([g EXCEPT !.step.thrown = rf], "search")
             IN  IF handler > 0
                 THEN goto_abs(Push([s EXCEPT !.stack = <<>>], rf), handler)
                 ELSE set_return(s, rf)

\* C20 mutant: a thrown null is propagated to the invoker as it is.
athrow_null(f) ==
    LET rf == Top(f, 0)
        g == Drop(f, 1)
        s == Log([g EXCEPT !.step.thrown = rf], "search")
    IN  IF rf = Null THEN set_return(s, rf)
        ELSE IF try_handle_exception(g, rf) > 0
        THEN goto_abs(Push([s EXCEPT !.stack = <<>>], rf), try_handle_exception(g, rf))
        ELSE set_return(s, rf)

\* C36 mutant: athrow on null records the NullPointerException and returns
\* without dispatching it.
athrow_undispatched(f) ==
    LET rf == Top(f, 0)
        g == Drop(f, 1)
        s == Log([g EXCEPT !.step.thrown = rf], "search")
    IN  IF rf = Null THEN throw_ext(g, J_NPE, "")
        ELSE IF try_handle_exception(g, rf) > 0
        THEN goto_abs(Push([s EXCEPT !.stack = <<>>], rf), try_handle_exception(g, rf))
        ELSE set_return(s, rf)

\* C25 mutant: athrow records the exception as the result also when it enters
\* a handler.
athrow_returns(f) ==
    LET rf == Top(f, 0)
        g == Drop(f, 1)
        s == Log([g EXCEPT !.step.thrown = rf], "search")
    IN  IF rf = Null THEN handle_exception(throw_ext(g, J_NPE, ""))
        ELSE IF try_handle_exception(g, rf) > 0
        THEN set_return(goto_abs(Push([s EXCEPT !.stack = <<>>], rf),
                                 try_handle_exception(g, rf)), rf)
        ELSE set_return(s, rf)

athrow(f) ==
    LET rf == Top(f, 0)
        g == Drop(f, 1)
    IN  IF rf = Null
        THEN handle_exception(throw_ext(g, J_NPE, ""))
        ELSE LET handler == try_handle_exception(g, rf)
                 s == Log([g EXCEPT !.step.thrown = rf], "search")
             IN  IF handler > 0
                 THEN goto_abs(Push([s EXCEPT !.stack = <<>>], rf), handler)
                 ELSE set_return(s, rf)

---------------------------------------------------------------------------
(* The instruction step.  The invoker steps the frame while no return      *)
(* value is set: it reads the opcode byte at pc with read_u1, which leaves *)
(* pc on the byte after the opcode, and calls the opcode's handler.        *)

Running == status = "running" /\ return_v = None

\* The next instruction is opc.
At(opc) == Running /\ pc >= 0 /\ pc < Len(code) /\ code[pc + 1] = opc

\* The frame the handler of `name` starts from: the opcode byte is read.
Fetched(name) == read_u1(Cur(name))

\* pc is outside the code: reading the opcode byte panics.
fetch_out_of_code ==
    /\ Running
    /\ pc < 0 \/ pc >= Len(code)
    /\ Commit(read_u1(Cur("fetch")))

nop ==
    /\ At(OpCode.nop)
    /\ Commit(Fetched("nop"))

\* The operand byte, as read_i1 returns it, is pushed as an int.
bipush ==
    /\ At(OpCode.bipush)
    /\ LET g == read_i1(Fetched("bipush"))
       IN  Commit(IF g.status = "panic" THEN g ELSE Push(g, IntV(I32(g.ret))))

\* local.get_*(pos) pushed; a slot outside the locals panics.
LoadLocal(f) ==
    LET g == read_u1(f)
    IN  IF g.status = "panic" THEN g
        ELSE IF g.ret >= Len(g.local) THEN Panic(g, "index out of bounds")
        ELSE Push(g, g.local[g.ret + 1])

\* The local slot the load at pc names holds a value of type t.
LocalIs(t) ==
    /\ pc + 1 < Len(code)
    /\ code[pc + 2] < Len(local) => local[code[pc + 2] + 1].t = t

iload ==
    /\ At(OpCode.iload) /\ LocalIs("int")
    /\ Commit(LoadLocal(Fetched("iload")))

aload ==
    /\ At(OpCode.aload) /\ LocalIs("ref")
    /\ Commit(LoadLocal(Fetched("aload")))

return_ ==
    /\ At(OpCode.return_)
    /\ Commit(set_return(Fetched("return_"), Null))

---------------------------------------------------------------------------
(* Branches. *)

\* The body every if* handler shares: a taken branch reads its operand with
\* read_i2 and adds it to pc, then subtracts 1; a branch not taken skips the
\* two operand bytes.
TakeOrSkip(f, taken) ==
    IF taken
    THEN LET g == read_i2(f)
         IN  IF g.status = "panic" THEN g
             ELSE [g EXCEPT !.pc = (g.pc + g.ret) - 1,
                            !.step.taken = TRUE, !.step.branch = g.ret]
    ELSE [f EXCEPT !.pc = @ + 2]

\* if<cond>: one int against zero.
ifeq ==
    /\ At(OpCode.ifeq) /\ Typed(<<"int">>)
    /\ LET f == Fetched("ifeq")
           v == Top(f, 0).bits
       IN  Commit(TakeOrSkip(Drop(f, 1), BvIsZero(v)))
ifne ==
    /\ At(OpCode.ifne) /\ Typed(<<"int">>)
    /\ LET f == Fetched("ifne")
           v == Top(f, 0).bits
       IN  Commit(TakeOrSkip(Drop(f, 1), ~BvIsZero(v)))
iflt ==
    /\ At(OpCode.iflt) /\ Typed(<<"int">>)
    /\ LET f == Fetched("iflt")
           v == Top(f, 0).bits
       IN  Commit(TakeOrSkip(Drop(f, 1), BvSign(v) = 1))
ifge ==
    /\ At(OpCode.ifge) /\ Typed(<<"int">>)
    /\ LET f == Fetched("ifge")
           v == Top(f, 0).bits
       IN  Commit(TakeOrSkip(Drop(f, 1), BvSign(v) = 0))
ifgt ==
    /\ At(OpCode.ifgt) /\ Typed(<<"int">>)
    /\ LET f == Fetched("ifgt")
           v == Top(f, 0).bits
       IN  Commit(TakeOrSkip(Drop(f, 1), BvSign(v) = 0 /\ ~BvIsZero(v)))
ifle ==
    /\ At(OpCode.ifle) /\ Typed(<<"int">>)
    /\ LET f == Fetched("ifle")
           v == Top(f, 0).bits
       IN  Commit(TakeOrSkip(Drop(f, 1), BvSign(v) = 1 \/ BvIsZero(v)))

\* if_icmp<cond>: v2 is popped first, v1 second; the test is v1 <cond> v2.
if_icmpeq ==
    /\ At(OpCode.if_icmpeq) /\ Typed(<<"int", "int">>)
    /\ LET f == Fetched("if_icmpeq")
           v2 == Top(f, 0).bits
           v1 == Top(f, 1).bits
       IN  Commit(TakeOrSkip(Drop(f, 2), v1 = v2))
if_icmpne ==
    /\ At(OpCode.if_icmpne) /\ Typed(<<"int", "int">>)
    /\ LET f == Fetched("if_icmpne")
           v2 == Top(f, 0).bits
           v1 == Top(f, 1).bits
       IN  Commit(TakeOrSkip(Drop(f, 2), v1 # v2))
if_icmplt ==
    /\ At(OpCode.if_icmplt) /\ Typed(<<"int", "int">>)
    /\ LET f == Fetched("if_icmplt")
           v2 == Top(f, 0).bits
           v1 == Top(f, 1).bits
       IN  Commit(TakeOrSkip(Drop(f, 2), BvSLt(v1, v2)))
if_icmpge ==
    /\ At(OpCode.if_icmpge) /\ Typed(<<"int", "int">>)
    /\ LET f == Fetched("if_icmpge")
           v2 == Top(f, 0).bits
           v1 == Top(f, 1).bits
       IN  Commit(TakeOrSkip(Drop(f, 2), ~BvSLt(v1, v2)))
if_icmpgt ==
    /\ At(OpCode.if_icmpgt) /\ Typed(<<"int", "int">>)
    /\ LET f == Fetched("if_icmpgt")
           v2 == Top(f, 0).bits
           v1 == Top(f, 1).bits
       IN  Commit(TakeOrSkip(Drop(f, 2), BvSLt(v2, v1)))
if_icmple ==
    /\ At(OpCode.if_icmple) /\ Typed(<<"int", "int">>)
    /\ LET f == Fetched("if_icmple")
           v2 == Top(f, 0).bits
           v1 == Top(f, 1).bits
       IN  Commit(TakeOrSkip(Drop(f, 2), ~BvSLt(v2, v1)))

\* Arc::ptr_eq of the two references.
if_acmpeq ==
    /\ At(OpCode.if_acmpeq) /\ Typed(<<"ref", "ref">>)
    /\ LET f == Fetched("if_acmpeq")
       IN  Commit(TakeOrSkip(Drop(f, 2), Top(f, 1).id = Top(f, 0).id))

if_acmpne ==
    /\ At(OpCode.if_acmpne) /\ Typed(<<"ref", "ref">>)
    /\ LET f == Fetched("if_acmpne")
       IN  Commit(TakeOrSkip(Drop(f, 2), Top(f, 1).id # Top(f, 0).id))

if_null ==
    /\ At(OpCode.if_null) /\ Typed(<<"ref">>)
    /\ LET f == Fetched("if_null")
       IN  Commit(TakeOrSkip(Drop(f, 1), Top(f, 0) = Null))

if_non_null ==
    /\ At(OpCode.if_non_null) /\ Typed(<<"ref">>)
    /\ LET f == Fetched("if_non_null")
       IN  Commit(TakeOrSkip(Drop(f, 1), Top(f, 0) # Null))

goto ==
    /\ At(OpCode.goto)
    /\ Commit(TakeOrSkip(Fetched("goto"), TRUE))

---------------------------------------------------------------------------
(* Exceptions thrown by the method. *)

\* The reference on top of the stack is null or an exception object.
Throwable(v) == IF v = Null THEN TRUE ELSE heap[v.id].kind = "inst"

athrow_step ==
    /\ At(OpCode.athrow) /\ Typed(<<"ref">>) /\ Throwable(stack[Len(stack)])
    /\ Commit(athrow(Fetched("athrow")))

---------------------------------------------------------------------------
(* Arithmetic.  An operator that overflows panics in a build with overflow *)
(* checks and wraps in a build without them.                               *)

lload ==
    /\ At(OpCode.lload) /\ LocalIs("long")
    /\ Commit(LoadLocal(Fetched("lload")))

fload ==
    /\ At(OpCode.fload) /\ LocalIs("float")
    /\ Commit(LoadLocal(Fetched("fload")))

dload ==
    /\ At(OpCode.dload) /\ LocalIs("double")
    /\ Commit(LoadLocal(Fetched("dload")))

\* v2 & 0x1F (mask 31) or v2 & 0x3F (mask 63) as a number.
ShiftBy(v2, mask) == BvToInt(BvAnd(v2, I32(mask)))

\* (v1 >> s) + (2 << !s) for a negative v1.  !s is negative, so the shift by it
\* overflows: a build with overflow checks panics, one without shifts by !s masked
\* to the width, that is by mask - s, and adds with wrap-around.
UshrNegative(v1, s, mask) ==
    BvAdd(BvSar(v1, s), BvShl(BvOfInt(2, Len(v1)), mask - s))

Ushr(v1, v2, mask) ==
    IF BvSign(v1) = 0 THEN BvSar(v1, ShiftBy(v2, mask))
    ELSE UshrNegative(v1, ShiftBy(v2, mask), mask)

\* v1 - (v1 / v2) * v2
RemOf(v1, v2) == BvSub(v1, BvMul(BvSDiv(v1, v2), v2))

\* The expression the handler `name` pushes for v1 and v2, without overflow checks.
BinOp(name, v1, v2) ==
    CASE name \in {"iadd", "ladd"} -> BvAdd(v1, v2)
      [] name \in {"isub", "lsub"} -> BvSub(v1, v2)
      [] name \in {"imul", "lmul"} -> BvMul(v1, v2)
      [] name \in {"idiv", "ldiv"} -> BvSDiv(v1, v2)
      [] name \in {"irem", "lrem"} -> RemOf(v1, v2)
      [] name \in {"iand", "land"} -> BvAnd(v1, v2)
      [] name \in {"ior", "lor"} -> BvOr(v1, v2)
      [] name \in {"ixor", "lxor"} -> BvXor(v1, v2)
      [] name = "ishl" -> BvShl(v1, ShiftBy(v2, 31))
      [] name = "lshl" -> BvShl(v1, ShiftBy(v2, 63))
      [] name = "ishr" -> BvSar(v1, ShiftBy(v2, 31))
      [] name = "lshr" -> BvSar(v1, ShiftBy(v2, 63))
      [] name = "iushr" -> Ushr(v1, v2, 31)
      [] name = "lushr" -> Ushr(v1, v2, 63)

\* The expression overflows: a build with overflow checks panics on it.
Overflows(name, v1, v2) ==
    CASE name \in {"iadd", "ladd"} ->
            BvSign(v1) = BvSign(v2) /\ BvSign(BvAdd(v1, v2)) # BvSign(v1)
      [] name \in {"isub", "lsub"} ->
            BvSign(v1) # BvSign(v2) /\ BvSign(BvSub(v1, v2)) # BvSign(v1)
      [] name \in {"imul", "lmul"} ->
            LET k == 2 * Len(v1)
            IN  BvMul(BvExt(v1, k), BvExt(v2, k)) # BvExt(BvMul(v1, v2), k)
      [] name \in {"iushr", "lushr"} -> BvSign(v1) = 1
      [] OTHER -> FALSE

\* v2 is popped first and v1 second; v1 <op> v2 is pushed with the type of v1.
\* The outcomes of the builds: the wrapped result and, on overflow, the panic.
Arith2(f) ==
    LET v2 == Top(f, 0).bits
        v1 == Top(f, 1).bits
        g == Drop(f, 2)
    IN  {Push(g, [t |-> Top(f, 1).t, bits |-> BinOp(f.step.op, v1, v2)])}
            \cup IF Overflows(f.step.op, v1, v2)
                 THEN {Panic(g, "arithmetic overflow")} ELSE {}

iadd ==
    /\ At(OpCode.iadd) /\ Typed(<<"int", "int">>)
    /\ \E r \in Arith2(Fetched("iadd")) : Commit(r)
ladd ==
    /\ At(OpCode.ladd) /\ Typed(<<"long", "long">>)
    /\ \E r \in Arith2(Fetched("ladd")) : Commit(r)

\* C10 mutant: isub with its operands taken in the other order.
isub_reversed ==
    /\ At(OpCode.isub) /\ Typed(<<"int", "int">>)
    /\ LET f == Fetched("isub")
       IN  Commit(Push(Drop(f, 2), IntV(BvSub(Top(f, 0).bits, Top(f, 1).bits))))

isub ==
    /\ At(OpCode.isub) /\ Typed(<<"int", "int">>)
    /\ \E r \in Arith2(Fetched("isub")) : Commit(r)
lsub ==
    /\ At(OpCode.lsub) /\ Typed(<<"long", "long">>)
    /\ \E r \in Arith2(Fetched("lsub")) : Commit(r)
imul ==
    /\ At(OpCode.imul) /\ Typed(<<"int", "int">>)
    /\ \E r \in Arith2(Fetched("imul")) : Commit(r)
lmul ==
    /\ At(OpCode.lmul) /\ Typed(<<"long", "long">>)
    /\ \E r \in Arith2(Fetched("lmul")) : Commit(r)
iand ==
    /\ At(OpCode.iand) /\ Typed(<<"int", "int">>)
    /\ \E r \in Arith2(Fetched("iand")) : Commit(r)
land ==
    /\ At(OpCode.land) /\ Typed(<<"long", "long">>)
    /\ \E r \in Arith2(Fetched("land")) : Commit(r)
ior ==
    /\ At(OpCode.ior) /\ Typed(<<"int", "int">>)
    /\ \E r \in Arith2(Fetched("ior")) : Commit(r)
lor ==
    /\ At(OpCode.lor) /\ Typed(<<"long", "long">>)
    /\ \E r \in Arith2(Fetched("lor")) : Commit(r)
ixor ==
    /\ At(OpCode.ixor) /\ Typed(<<"int", "int">>)
    /\ \E r \in Arith2(Fetched("ixor")) : Commit(r)
lxor ==
    /\ At(OpCode.lxor) /\ Typed(<<"long", "long">>)
    /\ \E r \in Arith2(Fetched("lxor")) : Commit(r)
\* C13 mutant: ishl without the mask: an amount outside 0..31 shifts every bit out.
ishl_unmasked ==
    /\ At(OpCode.ishl) /\ Typed(<<"int", "int">>)
    /\ LET f == Fetched("ishl")
           v2 == Top(f, 0).bits
           s == IF BvSign(v2) = 1 THEN 32 ELSE IF BvToInt(v2) > 31 THEN 32 ELSE BvToInt(v2)
       IN  Commit(Push(Drop(f, 2), IntV(BvShl(Top(f, 1).bits, s))))

ishl ==
    /\ At(OpCode.ishl) /\ Typed(<<"int", "int">>)
    /\ \E r \in Arith2(Fetched("ishl")) : Commit(r)
lshl ==
    /\ At(OpCode.lshl) /\ Typed(<<"long", "int">>)
    /\ \E r \in Arith2(Fetched("lshl")) : Commit(r)
ishr ==
    /\ At(OpCode.ishr) /\ Typed(<<"int", "int">>)
    /\ \E r \in Arith2(Fetched("ishr")) : Commit(r)
lshr ==
    /\ At(OpCode.lshr) /\ Typed(<<"long", "int">>)
    /\ \E r \in Arith2(Fetched("lshr")) : Commit(r)
iushr ==
    /\ At(OpCode.iushr) /\ Typed(<<"int", "int">>)
    /\ \E r \in Arith2(Fetched("iushr")) : Commit(r)
lushr ==
    /\ At(OpCode.lushr) /\ Typed(<<"long", "int">>)
    /\ \E r \in Arith2(Fetched("lushr")) : Commit(r)

\* ineg, lneg: -v.  Negating the minimum overflows: a build with overflow checks
\* panics, one without pushes the minimum.
Neg(f) ==
    LET v == Top(f, 0).bits
        g == Drop(f, 1)
    IN  {Push(g, [t |-> Top(f, 0).t, bits |-> BvNeg(v)])}
            \cup IF BvSign(v) = 1 /\ BvNeg(v) = v
                 THEN {Panic(g, "attempt to negate with overflow")} ELSE {}

ineg ==
    /\ At(OpCode.ineg) /\ Typed(<<"int">>)
    /\ \E r \in Neg(Fetched("ineg")) : Commit(r)
lneg ==
    /\ At(OpCode.lneg) /\ Typed(<<"long">>)
    /\ \E r \in Neg(Fetched("lneg")) : Commit(r)

\* C5 mutant: a zero divisor pushes 0 instead of throwing.
DivRemUnchecked(f) ==
    LET v2 == Top(f, 0).bits
        v1 == Top(f, 1).bits
        g == Drop(f, 2)
    IN  IF BvIsZero(v2) \/ BvDivOverflows(v1, v2)
        THEN Push(g, [t |-> Top(f, 1).t, bits |-> BvZero(Len(v1))])
        ELSE Push(g, [t |-> Top(f, 1).t, bits |-> BinOp(f.step.op, v1, v2)])

\* idiv, ldiv, irem, lrem: a zero divisor throws; MIN / -1 panics in every build.
DivRem(f) ==
    LET v2 == Top(f, 0).bits
        v1 == Top(f, 1).bits
        g == Drop(f, 2)
    IN  IF BvIsZero(v2)
        THEN handle_exception(throw_ext(g, J_ARITHMETIC_EX, "divide by zero"))
        ELSE IF BvDivOverflows(v1, v2) THEN Panic(g, "attempt to divide with overflow")
        ELSE Push(g, [t |-> Top(f, 1).t, bits |-> BinOp(f.step.op, v1, v2)])

idiv ==
    /\ At(OpCode.idiv) /\ Typed(<<"int", "int">>)
    /\ Commit(DivRem(Fetched("idiv")))
ldiv ==
    /\ At(OpCode.ldiv) /\ Typed(<<"long", "long">>)
    /\ Commit(DivRem(Fetched("ldiv")))
irem ==
    /\ At(OpCode.irem) /\ Typed(<<"int", "int">>)
    /\ Commit(DivRem(Fetched("irem")))
lrem ==
    /\ At(OpCode.lrem) /\ Typed(<<"long", "long">>)
    /\ Commit(DivRem(Fetched("lrem")))

\* fdiv, ddiv: a divisor equal to 0.0 throws, like the integer forms.
FltDivide(f) ==
    LET v2 == Top(f, 0).f
        v1 == Top(f, 1).f
        g == Drop(f, 2)
    IN  IF FltIsZero(v2)
        THEN handle_exception(throw_ext(g, J_ARITHMETIC_EX, "divide by zero"))
        ELSE Push(g, [t |-> Top(f, 1).t, f |-> FltDiv(v1, v2)])

fdiv ==
    /\ At(OpCode.fdiv) /\ Typed(<<"float", "float">>)
    /\ Commit(FltDivide(Fetched("fdiv")))
ddiv ==
    /\ At(OpCode.ddiv) /\ Typed(<<"double", "double">>)
    /\ Commit(FltDivide(Fetched("ddiv")))

\* C15 mutant: the cast rounds away from zero.
FltRoundAway(x, k) ==
    LET max == BvNot(BvShl(BvOfInt(1, k), 8 * k - 1))
        n == IF x.e < 0 THEN BvOfInt(1, k) ELSE BvShl(BvOfInt(1, k), x.e)
    IN  CASE x.k \in {"nan", "zero"} -> BvZero(k)
          [] x.k = "fin" /\ x.e < 8 * k - 1 -> IF x.s = 1 THEN BvNeg(n) ELSE n
          [] OTHER -> IF x.s = 1 THEN BvNot(max) ELSE max

\* The cast `v as i32` (k = 4) or `v as i64` (k = 8) of a float: the value
\* truncated toward zero, the nearest bound when it is out of range, 0 for NaN.
FltTrunc(x, k) ==
    LET max == BvNot(BvShl(BvOfInt(1, k), 8 * k - 1))
    IN  CASE x.k \in {"nan", "zero"} -> BvZero(k)
          [] x.k = "fin" /\ x.e < 0 -> BvZero(k)
          [] x.k = "fin" /\ x.e < 8 * k - 1 ->
                IF x.s = 1 THEN BvNeg(BvShl(BvOfInt(1, k), x.e))
                ELSE BvShl(BvOfInt(1, k), x.e)
          [] OTHER -> IF x.s = 1 THEN BvNot(max) ELSE max

\* f2i, d2i, f2l, d2l: NaN gives 0, an infinity the bound of its sign, any other
\* value the cast.
FltToInt(f) ==
    LET v == Top(f, 0).f
        k == IF f.step.op \in {"f2i", "d2i"} THEN 4 ELSE 8
        max == BvNot(BvShl(BvOfInt(1, k), 8 * k - 1))
        bits == IF v.k = "nan" THEN BvZero(k)
                ELSE IF v.k = "inf" THEN (IF v.s = 0 THEN max ELSE BvNot(max))
                ELSE FltTrunc(v, k)
    IN  Push(Drop(f, 1), IF k = 4 THEN IntV(bits) ELSE LongV(bits))

f2i ==
    /\ At(OpCode.f2i) /\ Typed(<<"float">>)
    /\ Commit(FltToInt(Fetched("f2i")))
f2l ==
    /\ At(OpCode.f2l) /\ Typed(<<"float">>)
    /\ Commit(FltToInt(Fetched("f2l")))
d2i ==
    /\ At(OpCode.d2i) /\ Typed(<<"double">>)
    /\ Commit(FltToInt(Fetched("d2i")))
d2l ==
    /\ At(OpCode.d2l) /\ Typed(<<"double">>)
    /\ Commit(FltToInt(Fetched("d2l")))

\* The Rust test x < y on floats: false when either is NaN; the zeros are equal.
FltLt(x, y) ==
    LET mag(z) == IF z.k = "inf" THEN 1000 ELSE z.e
        neg(z) == z.k \in {"inf", "fin"} /\ z.s = 1
        pos(z) == z.k \in {"inf", "fin"} /\ z.s = 0
    IN  IF x.k = "nan" \/ y.k = "nan" THEN FALSE
        ELSE IF neg(x) THEN (IF neg(y) THEN mag(x) > mag(y) ELSE TRUE)
        ELSE IF pos(x) THEN pos(y) /\ mag(x) < mag(y)
        ELSE pos(y)

\* lcmp, fcmpl, fcmpg, dcmpl, dcmpg: v1 is popped first and v2 second; -1 is
\* pushed when v1 > v2, 1 when v1 < v2, 0 otherwise.  The float forms test for
\* NaN first and push -1 (fcmpl, dcmpl) or 1 (fcmpg, dcmpg).
Compare(f) ==
    LET v1 == Top(f, 0)
        v2 == Top(f, 1)
        g == Drop(f, 2)
        gt == IF f.step.op = "lcmp" THEN BvSLt(v2.bits, v1.bits) ELSE FltLt(v2.f, v1.f)
        lt == IF f.step.op = "lcmp" THEN BvSLt(v1.bits, v2.bits) ELSE FltLt(v1.f, v2.f)
        nan == IF f.step.op = "lcmp" THEN FALSE ELSE v1.f.k = "nan" \/ v2.f.k = "nan"
    IN  IF nan THEN Push(g, IntV(I32(IF f.step.op \in {"fcmpl", "dcmpl"} THEN -1 ELSE 1)))
        ELSE IF gt THEN Push(g, IntV(I32(-1)))
        ELSE IF lt THEN Push(g, IntV(I32(1)))
        ELSE Push(g, IntV(I32(0)))

\* C17 mutant: lcmp that names its operands in push order and keeps the tests.
lcmp_reversed ==
    /\ At(OpCode.lcmp) /\ Typed(<<"long", "long">>)
    /\ LET f == Fetched("lcmp")
       IN  Commit(Compare([f EXCEPT !.stack = Drop(f, 2).stack \o <<Top(f, 0), Top(f, 1)>>]))

lcmp ==
    /\ At(OpCode.lcmp) /\ Typed(<<"long", "long">>)
    /\ Commit(Compare(Fetched("lcmp")))
fcmpl ==
    /\ At(OpCode.fcmpl) /\ Typed(<<"float", "float">>)
    /\ Commit(Compare(Fetched("fcmpl")))

\* C16 mutant: fcmpg that treats NaN as fcmpl does.
fcmpg_as_fcmpl ==
    /\ At(OpCode.fcmpg) /\ Typed(<<"float", "float">>)
    /\ LET f == Fetched("fcmpg")
       IN  Commit([Compare([f EXCEPT !.step.op = "fcmpl"]) EXCEPT !.step.op = "fcmpg"])

fcmpg ==
    /\ At(OpCode.fcmpg) /\ Typed(<<"float", "float">>)
    /\ Commit(Compare(Fetched("fcmpg")))
dcmpl ==
    /\ At(OpCode.dcmpl) /\ Typed(<<"double", "double">>)
    /\ Commit(Compare(Fetched("dcmpl")))
dcmpg ==
    /\ At(OpCode.dcmpg) /\ Typed(<<"double", "double">>)
    /\ Commit(Compare(Fetched("dcmpg")))

---------------------------------------------------------------------------
(* Arrays.  A load reads through the shared reference; a store asks for    *)
(* exclusive access with Arc::get_mut(&mut rf).unwrap(), which panics when *)
(* the reference has another holder.  The canonical null always has one.   *)

aconst_null ==
    /\ At(OpCode.aconst_null)
    /\ Commit(Push(Fetched("aconst_null"), Null))

astore ==
    /\ At(OpCode.astore) /\ Typed(<<"ref">>)
    /\ LET g == read_u1(Fetched("astore"))
       IN  Commit(IF g.status = "panic" THEN g
                  ELSE IF g.ret >= Len(g.local) THEN Panic(g, "index out of bounds")
                  ELSE [Drop(g, 1) EXCEPT !.local[g.ret + 1] = Top(g, 0)])

\* The number of entries of a sequence that are the reference rf.
RECURSIVE CountIn(_, _)
CountIn(seq, rf) ==
    IF seq = <<>> THEN 0
    ELSE (IF Head(seq) = rf THEN 1 ELSE 0) + CountIn(Tail(seq), rf)

\* Arc::get_mut(&mut rf) is Some: the popped rf is the only holder of its object.
GetMut(f, rf) ==
    /\ rf # Null
    /\ f.heap[rf.id].ext = 0
    /\ CountIn(f.stack \o f.local \o <<f.return_v, f.exception>>, rf) = 0
    /\ \A i \in DOMAIN f.heap :
           f.heap[i].kind = "array" => CountIn(f.heap[i].elems, rf) = 0

BoundsMsg(len, pos) == "length is " \o ToString(len) \o ", but index is " \o ToString(pos)

\* C8 mutant: the bounds check comes first and null counts as an empty array.
ArrayLoadBoundsFirst(f) ==
    LET pos == BvToInt(Top(f, 0).bits)
        rf == Top(f, 1)
        g == Drop(f, 2)
        len == IF rf = Null THEN 0 ELSE Len(g.heap[rf.id].elems)
    IN  IF pos < 0 \/ pos >= len
        THEN handle_exception(throw_ext(g, J_ARRAY_INDEX_OUT_OF_BOUNDS, BoundsMsg(len, pos)))
        ELSE Push(g, g.heap[rf.id].elems[pos + 1])

\* iaload, laload, faload, daload, aaload: pos and rf are popped; an array is
\* bounds-checked and its element pushed; null throws.
ArrayLoad(f) ==
    LET pos == BvToInt(Top(f, 0).bits)
        rf == Top(f, 1)
        g == Drop(f, 2)
    IN  IF rf = Null THEN handle_exception(throw_ext(g, J_NPE, ""))
        ELSE LET len == Len(g.heap[rf.id].elems)
             IN  IF pos < 0 \/ pos >= len
                 THEN handle_exception(
                          throw_ext(g, J_ARRAY_INDEX_OUT_OF_BOUNDS, BoundsMsg(len, pos)))
                 ELSE Push(g, g.heap[rf.id].elems[pos + 1])

\* The reference at depth k is null or an array whose elements have type t
\* (the handlers' other match arms are unreachable!()).
ArrayOf(k, t) ==
    LET rf == stack[Len(stack) - k]
    IN  IF rf = Null THEN TRUE
        ELSE /\ heap[rf.id].kind = "array"
             /\ \A i \in DOMAIN heap[rf.id].elems : heap[rf.id].elems[i].t = t

iaload ==
    /\ At(OpCode.iaload) /\ Typed(<<"ref", "int">>) /\ ArrayOf(1, "int")
    /\ Commit(ArrayLoad(Fetched("iaload")))
saload ==
    /\ At(OpCode.saload) /\ Typed(<<"ref", "int">>) /\ ArrayOf(1, "int")
    /\ Commit(ArrayLoad(Fetched("saload")))
caload ==
    /\ At(OpCode.caload) /\ Typed(<<"ref", "int">>) /\ ArrayOf(1, "int")
    /\ Commit(ArrayLoad(Fetched("caload")))
baload ==
    /\ At(OpCode.baload) /\ Typed(<<"ref", "int">>) /\ ArrayOf(1, "int")
    /\ Commit(ArrayLoad(Fetched("baload")))
laload ==
    /\ At(OpCode.laload) /\ Typed(<<"ref", "int">>) /\ ArrayOf(1, "long")
    /\ Commit(ArrayLoad(Fetched("laload")))
faload ==
    /\ At(OpCode.faload) /\ Typed(<<"ref", "int">>) /\ ArrayOf(1, "float")
    /\ Commit(ArrayLoad(Fetched("faload")))
daload ==
    /\ At(OpCode.daload) /\ Typed(<<"ref", "int">>) /\ ArrayOf(1, "double")
    /\ Commit(ArrayLoad(Fetched("daload")))
aaload ==
    /\ At(OpCode.aaload) /\ Typed(<<"ref", "int">>) /\ ArrayOf(1, "ref")
    /\ Commit(ArrayLoad(Fetched("aaload")))

\* iastore, lastore, fastore, dastore: v, pos and rf are popped, in this order;
\* then exclusive access, the match on the object, the bounds check, the write.
ArrayStore(f) ==
    LET v == Top(f, 0)
        pos == BvToInt(Top(f, 1).bits)
        rf == Top(f, 2)
        g == Drop(f, 3)
    IN  IF ~GetMut(g, rf) THEN Panic(g, "called Option::unwrap() on a None value")
        ELSE IF rf = Null THEN handle_exception(throw_ext(g, J_NPE, ""))
        ELSE LET len == Len(g.heap[rf.id].elems)
             IN  IF pos < 0 \/ pos >= len
                 THEN handle_exception(
                          throw_ext(g, J_ARRAY_INDEX_OUT_OF_BOUNDS, BoundsMsg(len, pos)))
                 ELSE [g EXCEPT !.heap[rf.id].elems[pos + 1] = v]

\* aastore: pos and rf are popped first, the value only by an in-bounds store.
\* pop_int on a slot that holds a reference panics in the typed stack.
RefStore(f) ==
    LET rf == Top(f, 1)
        g == Drop(f, 2)
    IN  IF Top(f, 0).t # "int" \/ rf.t # "ref" THEN Panic(f, "stack slot of another type")
        ELSE IF ~GetMut(g, rf) THEN Panic(g, "called Option::unwrap() on a None value")
        ELSE IF rf = Null THEN handle_exception(throw_ext(g, J_NPE, ""))
        ELSE LET len == Len(g.heap[rf.id].elems)
                 pos == BvToInt(Top(f, 0).bits)
             IN  IF pos < 0 \/ pos >= len
                 THEN handle_exception(
                          throw_ext(g, J_ARRAY_INDEX_OUT_OF_BOUNDS, BoundsMsg(len, pos)))
                 ELSE [Drop(g, 1) EXCEPT !.heap[rf.id].elems[pos + 1] = Top(g, 0)]

iastore ==
    /\ At(OpCode.iastore) /\ Typed(<<"ref", "int", "int">>) /\ ArrayOf(2, "int")
    /\ Commit(ArrayStore(Fetched("iastore")))
bastore ==
    /\ At(OpCode.bastore) /\ Typed(<<"ref", "int", "int">>) /\ ArrayOf(2, "int")
    /\ Commit(ArrayStore(Fetched("bastore")))
castore ==
    /\ At(OpCode.castore) /\ Typed(<<"ref", "int", "int">>) /\ ArrayOf(2, "int")
    /\ Commit(ArrayStore(Fetched("castore")))
sastore ==
    /\ At(OpCode.sastore) /\ Typed(<<"ref", "int", "int">>) /\ ArrayOf(2, "int")
    /\ Commit(ArrayStore(Fetched("sastore")))
lastore ==
    /\ At(OpCode.lastore) /\ Typed(<<"ref", "int", "long">>) /\ ArrayOf(2, "long")
    /\ Commit(ArrayStore(Fetched("lastore")))
fastore ==
    /\ At(OpCode.fastore) /\ Typed(<<"ref", "int", "float">>) /\ ArrayOf(2, "float")
    /\ Commit(ArrayStore(Fetched("fastore")))
dastore ==
    /\ At(OpCode.dastore) /\ Typed(<<"ref", "int", "double">>) /\ ArrayOf(2, "double")
    /\ Commit(ArrayStore(Fetched("dastore")))
aastore ==
    /\ At(OpCode.aastore) /\ Typed(<<"ref", "int", "ref">>) /\ ArrayOf(2, "ref")
    /\ Commit(RefStore(Fetched("aastore")))

---------------------------------------------------------------------------
(* Monitors.  The handlers ask for exclusive access to the popped          *)
(* reference, as the array stores do, before they look at the object.      *)

\* An object with the number ext of holders of its reference outside the frame
\* and the requests its lock has received, oldest first.
LockObj(ext, lock) ==
    [kind |-> "inst", cls |-> "java/lang/Object", msg |-> "", ext |-> ext, lock |-> lock]

\* monitor_enter, monitor_exit: rf is popped; Arc::get_mut(&mut rf).unwrap();
\* null throws, any other object receives the request.
Monitor(f) ==
    LET rf == Top(f, 0)
        g == Drop(f, 1)
    IN  IF ~GetMut(g, rf) THEN Panic(g, "called Option::unwrap() on a None value")
        ELSE IF rf = Null THEN handle_exception(throw_ext(g, J_NPE, ""))
        ELSE [g EXCEPT !.heap[rf.id].lock =
                  Append(@, IF f.step.op = "monitor_enter" THEN "enter" ELSE "exit")]

monitor_enter ==
    /\ At(OpCode.monitorenter) /\ Typed(<<"ref">>)
    /\ Commit(Monitor(Fetched("monitor_enter")))

monitor_exit ==
    /\ At(OpCode.monitorexit) /\ Typed(<<"ref">>)
    /\ Commit(Monitor(Fetched("monitor_exit")))

---------------------------------------------------------------------------
(* Copies on the operand stack.  The handlers pop and push with pop_ref    *)
(* and push_ref; v1 is the value popped first.                             *)

\* The frame with the values of vs pushed, the first of them first.
RECURSIVE PushAll(_, _)
PushAll(f, vs) == IF vs = <<>> THEN f ELSE PushAll(Push(f, Head(vs)), Tail(vs))

dup ==
    /\ At(OpCode.dup) /\ Typed(<<"ref">>)
    /\ LET f == Fetched("dup")
           v == Top(f, 0)
       IN  Commit(PushAll(Drop(f, 1), <<v, v>>))
dup_x1 ==
    /\ At(OpCode.dup_x1) /\ Typed(<<"ref", "ref">>)
    /\ LET f == Fetched("dup_x1")
           v1 == Top(f, 0)
           v2 == Top(f, 1)
       IN  Commit(PushAll(Drop(f, 2), <<v1, v2, v1>>))
dup_x2 ==
    /\ At(OpCode.dup_x2) /\ Typed(<<"ref", "ref", "ref">>)
    /\ LET f == Fetched("dup_x2")
           v1 == Top(f, 0)
           v2 == Top(f, 1)
           v3 == Top(f, 2)
       IN  Commit(PushAll(Drop(f, 3), <<v1, v3, v2, v1>>))
dup2 ==
    /\ At(OpCode.dup2) /\ Typed(<<"ref", "ref">>)
    /\ LET f == Fetched("dup2")
           v1 == Top(f, 0)
           v2 == Top(f, 1)
       IN  Commit(PushAll(Drop(f, 2), <<v2, v1, v2, v1>>))
dup2_x1 ==
    /\ At(OpCode.dup2_x1) /\ Typed(<<"ref", "ref", "ref">>)
    /\ LET f == Fetched("dup2_x1")
           v1 == Top(f, 0)
           v2 == Top(f, 1)
           v3 == Top(f, 2)
       IN  Commit(PushAll(Drop(f, 3), <<v2, v1, v3, v2, v1>>))
dup2_x2 ==
    /\ At(OpCode.dup2_x2) /\ Typed(<<"ref", "ref", "ref", "ref">>)
    /\ LET f == Fetched("dup2_x2")
           v1 == Top(f, 0)
           v2 == Top(f, 1)
           v3 == Top(f, 2)
           v4 == Top(f, 3)
       IN  Commit(PushAll(Drop(f, 4), <<v2, v1, v4, v3, v2, v1>>))

\* C40 mutant: swap pushes the two values back in the order it found them.
swap_back ==
    /\ At(OpCode.swap) /\ Typed(<<"ref", "ref">>)
    /\ LET f == Fetched("swap")
           v1 == Top(f, 0)
           v2 == Top(f, 1)
       IN  Commit(PushAll(Drop(f, 2), <<v2, v1>>))

swap ==
    /\ At(OpCode.swap) /\ Typed(<<"ref", "ref">>)
    /\ LET f == Fetched("swap")
           v1 == Top(f, 0)
           v2 == Top(f, 1)
       IN  Commit(PushAll(Drop(f, 2), <<v1, v2>>))

---------------------------------------------------------------------------
(* The increment of a local.                                               *)

\* iinc: pos is read with read_u1 and factor with read_i1; the int local at
\* pos becomes v + factor.  The outcomes of the builds: the wrapped sum and,
\* on overflow, the panic.
Increment(f) ==
    LET a == read_u1(f)
        b == read_i1(a)
        pos == a.ret
        factor == I32(b.ret)
        v == b.local[pos + 1].bits
    IN  IF b.status = "panic" THEN {b}
        ELSE IF pos >= Len(b.local) THEN {Panic(b, "index out of bounds")}
        ELSE {[b EXCEPT !.local[pos + 1] = IntV(BvAdd(v, factor))]}
                 \cup IF Overflows("iadd", v, factor)
                      THEN {Panic(b, "arithmetic overflow")} ELSE {}

iinc ==
    /\ At(OpCode.iinc) /\ LocalIs("int")
    /\ \E r \in Increment(Fetched("iinc")) : Commit(r)

---------------------------------------------------------------------------
(* Instance creation.  The classes are objects of the heap, each behind    *)
(* its own lock; the frame's class is the first.                           *)

\* Frame::class.
DeclaringClass == 1

\* runtime::require_class2: the class the constant pool entry idx names, 0 for
\* an entry that names none.
require_class2(idx) == IF idx \in 1..3 THEN idx ELSE 0

\* Class::init_class: the initializer of class C throws.
init_class(f, cls) ==
    IF f.heap[cls].cls = "C" THEN throw_ext(f, "java/lang/ExceptionInInitializerError", "")
    ELSE f

\* The frames new_ can leave.  The lock of the frame's class is held while the
\* entry is resolved and the resolved class is locked: on the same lock the
\* second lock() of the thread does not return, it blocks or panics.
New(f) ==
    LET g == read_i2(f)
        class == require_class2(g.ret)
        h == init_class(g, class)
    IN  IF g.status = "panic" THEN {g}
        ELSE IF class = 0 THEN {Panic(g, "Cannot get class info from constant pool")}
        ELSE IF class = DeclaringClass
        THEN {[g EXCEPT !.status = "blocked"], Panic(g, "lock held by the current thread")}
        ELSE IF h.exception # None THEN {handle_exception(h)}
        ELSE {Push([h EXCEPT !.heap = Append(@, InstObj(h.heap[class].cls, ""))],
                   RefV(Len(h.heap) + 1))}

new_ ==
    /\ At(OpCode.new)
    /\ \E r \in New(Fetched("new_")) : Commit(r)

---------------------------------------------------------------------------
(* Handlers without a body: the frame is as the fetch left it.             *)

table_switch ==
    /\ At(OpCode.tableswitch)
    /\ Commit(Fetched("table_switch"))
lookup_switch ==
    /\ At(OpCode.lookupswitch)
    /\ Commit(Fetched("lookup_switch"))
invoke_virtual ==
    /\ At(OpCode.invokevirtual)
    /\ Commit(Fetched("invoke_virtual"))
invoke_special ==
    /\ At(OpCode.invokespecial)
    /\ Commit(Fetched("invoke_special"))
invoke_static ==
    /\ At(OpCode.invokestatic)
    /\ Commit(Fetched("invoke_static"))
invoke_interface ==
    /\ At(OpCode.invokeinterface)
    /\ Commit(Fetched("invoke_interface"))
invoke_dynamic ==
    /\ At(OpCode.invokedynamic)
    /\ Commit(Fetched("invoke_dynamic"))
new_array ==
    /\ At(OpCode.newarray)
    /\ Commit(Fetched("new_array"))
anew_array ==
    /\ At(OpCode.anewarray)
    /\ Commit(Fetched("anew_array"))
check_cast ==
    /\ At(OpCode.checkcast)
    /\ Commit(Fetched("check_cast"))
instance_of ==
    /\ At(OpCode.instanceof)
    /\ Commit(Fetched("instance_of"))
multi_anew_array ==
    /\ At(OpCode.multianewarray)
    /\ Commit(Fetched("multi_anew_array"))

---------------------------------------------------------------------------
(* Returns.                                                                *)

\* ireturn, lreturn, freturn, dreturn, areturn: the popped value, as an object
\* for the primitive types, becomes the frame's result.
ReturnValue(f) == set_return(Drop(f, 1), Top(f, 0))

ireturn ==
    /\ At(OpCode.ireturn) /\ Typed(<<"int">>)
    /\ Commit(ReturnValue(Fetched("ireturn")))
lreturn ==
    /\ At(OpCode.lreturn) /\ Typed(<<"long">>)
    /\ Commit(ReturnValue(Fetched("lreturn")))
freturn ==
    /\ At(OpCode.freturn) /\ Typed(<<"float">>)
    /\ Commit(ReturnValue(Fetched("freturn")))
dreturn ==
    /\ At(OpCode.dreturn) /\ Typed(<<"double">>)
    /\ Commit(ReturnValue(Fetched("dreturn")))
areturn ==
    /\ At(OpCode.areturn) /\ Typed(<<"ref">>)
    /\ Commit(ReturnValue(Fetched("areturn")))

---------------------------------------------------------------------------
(* Instructions that abort.                                                *)

\* panic!("Use of deprecated instruction ..."), behind the handler's change of pc.
Deprecated(f, skip) ==
    Panic([f EXCEPT !.pc = @ + skip],
          "Use of deprecated instruction " \o f.step.op \o ", please check your Java compiler")

frem == At(OpCode.frem) /\ Commit(Deprecated(Fetched("frem"), 0))
drem == At(OpCode.drem) /\ Commit(Deprecated(Fetched("drem"), 0))
fneg == At(OpCode.fneg) /\ Commit(Deprecated(Fetched("fneg"), 0))
dneg == At(OpCode.dneg) /\ Commit(Deprecated(Fetched("dneg"), 0))
jsr == At(OpCode.jsr) /\ Commit(Deprecated(Fetched("jsr"), 2))
ret == At(OpCode.ret) /\ Commit(Deprecated(Fetched("ret"), 1))
wide == At(OpCode.wide) /\ Commit(Deprecated(Fetched("wide"), 0))
goto_w == At(OpCode.goto_w) /\ Commit(Deprecated(Fetched("goto_w"), 4))
jsr_w == At(OpCode.jsr_w) /\ Commit(Deprecated(Fetched("jsr_w"), 4))

\* C24 mutant: the report names the offset the fetch left pc at.
other_wise_behind(f) ==
    Panic(f, "Use of undefined bytecode: " \o ToString(f.code[f.pc]) \o " at " \o ToString(f.pc))

\* The byte at pc - 1 and pc - 1 are reported.
other_wise(f) ==
    LET at == f.pc - 1
    IN  Panic(f, "Use of undefined bytecode: " \o ToString(f.code[at + 1])
                     \o " at " \o ToString(at))

\* The opcode byte is none of the instruction set's: it is above jsr_w and the
\* reserved breakpoint.
undefined_bytecode ==
    /\ Running /\ pc >= 0 /\ pc < Len(code) /\ code[pc + 1] > OpCode.jsr_w + 1
    /\ Commit(other_wise(Fetched("other_wise")))

---------------------------------------------------------------------------
(* Fields.  The constant pool resolves an index to a field reference; the  *)
(* owning class holds the static values and each instance its own.         *)

\* An instance (kind "inst") or a class (kind "class") with its field values.
FieldsObj(kind, cls, fields) == [kind |-> kind, cls |-> cls, msg |-> "", fields |-> fields]

\* field::get_field_ref: the field the constant pool entry idx names, with its
\* value type, its placement and the heap index of its owning class.
get_field_ref(idx, is_static) ==
    LET cp == <<[name |-> "i", value_type |-> "INT", static |-> FALSE],
                [name |-> "s", value_type |-> "SHORT", static |-> FALSE],
                [name |-> "l", value_type |-> "LONG", static |-> FALSE],
                [name |-> "f", value_type |-> "FLOAT", static |-> FALSE],
                [name |-> "d", value_type |-> "DOUBLE", static |-> FALSE],
                [name |-> "o", value_type |-> "OBJECT", static |-> FALSE],
                [name |-> "si", value_type |-> "INT", static |-> TRUE],
                [name |-> "so", value_type |-> "OBJECT", static |-> TRUE],
                [name |-> "i", value_type |-> "INT", static |-> FALSE],
                [name |-> "si", value_type |-> "INT", static |-> TRUE]>>
    IN  [name |-> cp[idx].name, value_type |-> cp[idx].value_type, class |-> 3]

\* The constant pool entries whose resolution records an error on the thread
\* it is handed, and the frame after the resolution of entry idx.
Unlinked == {9, 10}
Resolve(f, idx) ==
    IF idx \in Unlinked THEN throw_ext(f, "java/lang/LinkageError", "") ELSE f

\* The stack type of the typed push or pop a value type selects.
StackType(value_type) ==
    CASE value_type \in {"OBJECT", "ARRAY"} -> "ref"
      [] value_type \in {"INT", "SHORT", "CHAR", "BOOLEAN", "BYTE"} -> "int"
      [] value_type = "FLOAT" -> "float"
      [] value_type = "DOUBLE" -> "double"
      [] value_type = "LONG" -> "long"

\* The field index in the two bytes behind the opcode at pc names a field whose
\* values have the type of the value at stack depth k.
OperandField(k) ==
    /\ pc + 2 < Len(code)
    /\ k >= 0 => /\ Len(stack) > k
                 /\ stack[Len(stack) - k].t =
                        StackType(get_field_ref(code[pc + 2] * 256 + code[pc + 3], FALSE).value_type)

\* The value of the field and its value type; a null receiver means a static.
get_field_helper(f, receiver, idx) ==
    LET is_static == receiver = Null
        field_id == get_field_ref(idx, is_static)
    IN  [v |-> IF is_static THEN f.heap[field_id.class].fields[field_id.name]
               ELSE f.heap[receiver.id].fields[field_id.name],
         value_type |-> field_id.value_type,
         thread |-> Resolve(f, idx)]

\* The value is popped by the field's value type and then, for an instance
\* field, the receiver; a null receiver throws, any other is written.
put_field_helper(f, idx, is_static) ==
    LET field_id == get_field_ref(idx, is_static)
        v == Top(f, 0)
        g == Drop(Resolve(f, idx), 1)
        receiver == Top(g, 0)
        h == Drop(g, 1)
    IN  IF is_static
        THEN [g EXCEPT !.heap[field_id.class].fields[field_id.name] = v]
        ELSE IF receiver = Null THEN handle_exception(throw_ext(h, J_NPE, ""))
        ELSE [h EXCEPT !.heap[receiver.id].fields[field_id.name] = v]

\* The value is pushed by its type also behind a dispatch.
get_static ==
    /\ At(OpCode.getstatic) /\ OperandField(-1)
    /\ LET f == read_i2(Fetched("get_static"))
           r == get_field_helper(f, Null, f.ret)
           g == IF r.thread.exception # None THEN handle_exception(r.thread) ELSE r.thread
       IN  Commit(Push(g, r.v))

put_static ==
    /\ At(OpCode.putstatic) /\ OperandField(0)
    /\ LET f == read_i2(Fetched("put_static"))
           g == put_field_helper(f, f.ret, TRUE)
       IN  Commit(IF g.exception # None THEN handle_exception(g) ELSE g)

\* C18 mutant: get_field without the test for null.
get_field_unchecked ==
    /\ At(OpCode.getfield) /\ OperandField(-1) /\ Typed(<<"ref">>)
    /\ Commit(Drop(read_i2(Fetched("get_field")), 1))

\* The receiver is popped; null throws.  The value get_field_helper returns
\* for another receiver is not used.
get_field ==
    /\ At(OpCode.getfield) /\ OperandField(-1) /\ Typed(<<"ref">>)
    /\ LET f == read_i2(Fetched("get_field"))
           rf == Top(f, 0)
           g == Drop(f, 1)
           r == get_field_helper(g, rf, f.ret)
       IN  IF rf = Null THEN Commit(handle_exception(throw_ext(g, J_NPE, "")))
           ELSE Commit(IF r.thread.exception # None THEN handle_exception(r.thread) ELSE r.thread)

put_field ==
    /\ At(OpCode.putfield) /\ OperandField(0) /\ Len(stack) >= 2 /\ stack[Len(stack) - 1].t = "ref"
    /\ LET f == read_i2(Fetched("put_field"))
       IN  Commit(put_field_helper(f, f.ret, FALSE))

---------------------------------------------------------------------------
(* Methods: the code the invoker hands to Frame::new, with the arguments   *)
(* in the first locals.  A method loads its arguments, runs one            *)
(* instruction on them and returns.                                        *)

Nops(n) == [i \in 1..n |-> OpCode.nop]

LoadOp(t) ==
    CASE t = "int" -> OpCode.iload
      [] t = "long" -> OpCode.lload
      [] t = "float" -> OpCode.fload
      [] t = "double" -> OpCode.dload
      [] t = "ref" -> OpCode.aload

RECURSIVE LoadsFrom(_, _)
LoadsFrom(args, i) ==
    IF i > Len(args) THEN <<>>
    ELSE <<LoadOp(args[i].t), i - 1>> \o LoadsFrom(args, i + 1)

\* The offset of the instruction under test: behind the loads, or at OpAt.
AtOf(args, far) == IF far THEN OpAt ELSE 2 * Len(args)

\* body is the instruction with its operand bytes.
MethodCode(args, body, far) ==
    Nops(AtOf(args, far) - 2 * Len(args)) \o LoadsFrom(args, 1) \o body
        \o Nops(TailLen) \o <<OpCode.return_>>

\* Frame::new on a method with these arguments, handler table and heap.
NewFrame(c, tbl, args, hp) ==
    /\ code = c
    /\ table = tbl
    /\ pc = 0
    /\ stack = <<>>
    /\ local = args
    /\ return_v = None
    /\ exception = None
    /\ heap = hp
    /\ status = "running"
    /\ step = [op |-> "new", at |-> 0, pre |-> <<>>, heap0 |-> hp, taken |-> FALSE,
               branch |-> 0, log |-> <<>>, thrown |-> None, panic |-> ""]

Entry(from, to, h, c) ==
    [start_pc |-> from, end_pc |-> to, handler_pc |-> h, catch_type |-> c]

\* The branch methods: every branch instruction on ints of each sign and on
\* null and two objects, with operand bytes for the offsets 3 and 5 and with
\* 0xFF 0xFB, -5 as a signed 16-bit offset.
BranchMethods ==
    LET ints == {I32(-1), I32(0), I32(1)}
        refs == {Null, RefV(1), RefV(2)}
        if1 == {OpCode.ifeq, OpCode.ifne, OpCode.iflt, OpCode.ifge, OpCode.ifgt, OpCode.ifle}
        if2 == {OpCode.if_icmpeq, OpCode.if_icmpne, OpCode.if_icmplt, OpCode.if_icmpge,
                OpCode.if_icmpgt, OpCode.if_icmple}
        ops == {<<<<IntV(a)>>, o>> : a \in ints, o \in if1}
                 \cup {<<<<IntV(a), IntV(b)>>, o>> : a \in ints, b \in ints, o \in if2}
                 \cup {<<<<a, b>>, o>> : a \in refs, b \in refs,
                                          o \in {OpCode.if_acmpeq, OpCode.if_acmpne}}
                 \cup {<<<<a>>, o>> : a \in refs, o \in {OpCode.if_null, OpCode.if_non_null}}
                 \cup {<<<<>>, OpCode.goto>>}
    IN  {<<m[1], <<m[2]>> \o b>> : m \in ops, b \in {<<0, 3>>, <<0, 5>>, <<255, 251>>}}

InitBranch ==
    \E m \in BranchMethods, far \in BOOLEAN :
        NewFrame(MethodCode(m[1], m[2], far), <<>>, m[1],
                 <<InstObj("java/lang/Object", ""), InstObj("java/lang/Object", "")>>)

NextBranch ==
    \/ nop \/ iload \/ aload \/ return_ \/ fetch_out_of_code
    \/ ifeq \/ ifne \/ iflt \/ ifge \/ ifgt \/ ifle
    \/ if_icmpeq \/ if_icmpne \/ if_icmplt \/ if_icmpge \/ if_icmpgt \/ if_icmple
    \/ if_acmpeq \/ if_acmpne \/ if_null \/ if_non_null \/ goto

SpecBranch == InitBranch /\ [][NextBranch]_vars

---------------------------------------------------------------------------
(* Methods that throw: athrow on an exception object or on null, and a     *)
(* division by zero, under handler tables of up to two entries.            *)

\* Tables of up to two entries for an instruction at offset at of a method
\* whose tail starts at offset tail: entries over the whole code with each catch
\* type and handler (offset 0 and two offsets of the tail), and catch-all entries
\* whose range ends at, ends behind, holds only, or starts behind the instruction.
ExcTables(at, tail) ==
    LET whole == tail + TailLen + 1
        types == {"any", "java/lang/Exception", "java/io/FileNotFoundException", J_NPE}
        entries ==
            {Entry(0, whole, h, c) : h \in {0, tail + 1, tail + 2}, c \in types}
                \cup {Entry(0, at, tail + 1, "any"), Entry(0, at + 1, tail + 1, "any"),
                      Entry(at, at + 1, tail + 2, "any"),
                      Entry(at + 1, whole, tail + 1, "any")}
    IN  {<<>>} \cup {<<e>> : e \in entries} \cup {<<e1, e2>> : e1 \in entries, e2 \in entries}

\* athrow on null, on an IOException and on a FileNotFoundException; 7 / 0 and 7 / 2.
ExcMethods ==
    {<<<<r>>, OpCode.athrow>> : r \in {Null, RefV(1), RefV(2)}}
        \cup {<<<<IntV(I32(7)), IntV(I32(d))>>, OpCode.idiv>> : d \in {0, 2}}

InitExc ==
    \E m \in ExcMethods, far \in BOOLEAN :
        \E tbl \in ExcTables(AtOf(m[1], far), AtOf(m[1], far) + 1) :
            NewFrame(MethodCode(m[1], <<m[2]>>, far), tbl, m[1],
                     <<InstObj("java/io/IOException", ""),
                       InstObj("java/io/FileNotFoundException", "")>>)

NextExc == nop \/ iload \/ aload \/ return_ \/ athrow_step \/ idiv

SpecExc == InitExc /\ [][NextExc]_vars

---------------------------------------------------------------------------
(* Methods that compute: one binary instruction on two arguments.          *)

\* Every binary instruction on the extremes, on numbers of each sign, on 0 and on
\* shift amounts above the width; the divisions under a table without entries,
\* with a handler for everything, for the arithmetic fault, for another class,
\* and with a handler at offset 0.
ArithMethods ==
    LET ints == {BvShl(I32(1), 31), I32(-7), I32(-1), I32(0), I32(2), I32(3), I32(33),
                 BvNot(BvShl(I32(1), 31))}
        longs == {BvShl(I64(1), 63), BvExt(BvShl(I32(1), 31), 8), I64(-7), I64(-1), I64(0),
                  I64(2), I64(3), BvNot(BvShl(I64(1), 63))}
        floats == {NaN, Flt("inf", 0, 0), Flt("inf", 1, 0), Flt("zero", 0, 0),
                   Flt("zero", 1, 0), Flt("fin", 0, 0), Flt("fin", 1, 1), Flt("fin", 0, -1)}
        large == {Flt("fin", 1, -1), Flt("fin", 0, 30), Flt("fin", 0, 31), Flt("fin", 1, 31),
                 Flt("fin", 1, 32), Flt("fin", 0, 62), Flt("fin", 0, 63), Flt("fin", 1, 63),
                 Flt("fin", 1, 64)}
        iops == {OpCode.iadd, OpCode.isub, OpCode.imul, OpCode.idiv, OpCode.irem,
                 OpCode.iand, OpCode.ior, OpCode.ixor, OpCode.ishl, OpCode.ishr, OpCode.iushr}
        lops == {OpCode.ladd, OpCode.lsub, OpCode.lmul, OpCode.ldiv, OpCode.lrem,
                 OpCode.land, OpCode.lor, OpCode.lxor, OpCode.lcmp}
        shifts == {OpCode.lshl, OpCode.lshr, OpCode.lushr}
    IN  {<<<<IntV(a), IntV(b)>>, o>> : a \in ints, b \in ints, o \in iops}
            \cup {<<<<IntV(a)>>, OpCode.ineg>> : a \in ints}
            \cup {<<<<LongV(a)>>, OpCode.lneg>> : a \in longs}
            \cup {<<<<FloatV(a)>>, o>> : a \in floats \cup large, o \in {OpCode.f2i, OpCode.f2l}}
            \cup {<<<<DoubleV(a)>>, o>> : a \in floats \cup large, o \in {OpCode.d2i, OpCode.d2l}}
            \cup {<<<<LongV(a), LongV(b)>>, o>> : a \in longs, b \in longs, o \in lops}
            \cup {<<<<LongV(a), IntV(b)>>, o>> : a \in longs, b \in ints, o \in shifts}
            \cup {<<<<FloatV(a), FloatV(b)>>, o>> : a \in floats, b \in floats,
                        o \in {OpCode.fdiv, OpCode.fcmpl, OpCode.fcmpg}}
            \cup {<<<<DoubleV(a), DoubleV(b)>>, o>> : a \in floats, b \in floats,
                        o \in {OpCode.ddiv, OpCode.dcmpl, OpCode.dcmpg}}

ArithTables(o, tail) ==
    IF o \in {OpCode.idiv, OpCode.irem, OpCode.ldiv, OpCode.lrem, OpCode.fdiv, OpCode.ddiv}
    THEN {<<>>} \cup {<<Entry(0, tail + TailLen + 1, h[1], h[2])>> :
                         h \in {<<tail + 1, "any">>, <<tail + 1, J_ARITHMETIC_EX>>,
                                <<tail + 1, J_NPE>>, <<0, "any">>}}
    ELSE {<<>>}

InitArith ==
    \E m \in ArithMethods :
        \E tbl \in ArithTables(m[2], AtOf(m[1], FALSE) + 1) :
            NewFrame(MethodCode(m[1], <<m[2]>>, FALSE), tbl, m[1], <<>>)

NextArith ==
    \/ nop \/ iload \/ lload \/ fload \/ dload \/ return_
    \/ iadd \/ ladd \/ isub \/ lsub \/ imul \/ lmul
    \/ idiv \/ ldiv \/ irem \/ lrem \/ fdiv \/ ddiv
    \/ iand \/ land \/ ior \/ lor \/ ixor \/ lxor
    \/ ishl \/ lshl \/ ishr \/ lshr \/ iushr \/ lushr
    \/ ineg \/ lneg \/ f2i \/ f2l \/ d2i \/ d2l
    \/ lcmp \/ fcmpl \/ fcmpg \/ dcmpl \/ dcmpg

SpecArith == InitArith /\ [][NextArith]_vars

---------------------------------------------------------------------------
(* Methods on arrays: one load or store on the array argument, or on null. *)
(* The invoker may keep the array; the method may drop its local before    *)
(* the access, so that the operand stack is the array's only holder.       *)

ArrayLen == 2

\* An element of each type (n = 0) and another value of the type to store.
Sample(t, n) ==
    CASE t = "int" -> IntV(I32(n))
      [] t = "long" -> LongV(I64(n))
      [] t = "float" -> FloatV(Flt("fin", 0, n))
      [] t = "double" -> DoubleV(Flt("fin", 0, n))
      [] t = "ref" -> IF n = 0 THEN Null ELSE RefV(2)

\* The arguments, the opcode and the element type: the array or null, an index
\* below, inside, at and above the length, and for a store the value.
ArrayMethods ==
    LET refs == {Null, RefV(1)}
        indexes == {-1, 0, ArrayLen - 1, ArrayLen, ArrayLen + 1}
        loads == {<<OpCode.iaload, "int">>, <<OpCode.baload, "int">>,
                  <<OpCode.caload, "int">>, <<OpCode.saload, "int">>,
                  <<OpCode.laload, "long">>, <<OpCode.faload, "float">>,
                  <<OpCode.daload, "double">>, <<OpCode.aaload, "ref">>}
        stores == {<<OpCode.iastore, "int">>, <<OpCode.bastore, "int">>,
                   <<OpCode.castore, "int">>, <<OpCode.sastore, "int">>,
                   <<OpCode.lastore, "long">>, <<OpCode.fastore, "float">>,
                   <<OpCode.dastore, "double">>, <<OpCode.aastore, "ref">>}
    IN  {<<<<r, IntV(I32(i))>>, o[1], o[2]>> : r \in refs, i \in indexes, o \in loads}
            \cup {<<<<r, IntV(I32(i)), Sample(o[2], 1)>>, o[1], o[2]>> :
                     r \in refs, i \in indexes, o \in stores}

\* aload 0, then (when the method drops its local) aconst_null and astore 0, the
\* loads of the other arguments, and the instruction.
ArrayCode(args, o, drops) ==
    <<OpCode.aload, 0>> \o (IF drops THEN <<OpCode.aconst_null, OpCode.astore, 0>> ELSE <<>>)
        \o LoadsFrom(args, 2) \o <<o>> \o Nops(TailLen) \o <<OpCode.return_>>

ArrayTables(tail) ==
    {<<>>} \cup {<<Entry(0, tail + TailLen + 1, tail + 1, c)>> :
                    c \in {"any", J_NPE, "java/lang/IndexOutOfBoundsException"}}

InitArray ==
    \E m \in ArrayMethods, drops \in BOOLEAN, ext \in {0, 1} :
        \E tbl \in ArrayTables(2 * Len(m[1]) + (IF drops THEN 3 ELSE 0) + 1) :
            NewFrame(ArrayCode(m[1], m[2], drops), tbl, m[1],
                     <<ArrayObj([i \in 1..ArrayLen |-> Sample(m[3], 0)], ext),
                       InstObj("java/lang/Object", "")>>)

NextArray ==
    \/ nop \/ iload \/ lload \/ fload \/ dload \/ aload \/ aconst_null \/ astore \/ return_
    \/ iaload \/ laload \/ faload \/ daload \/ aaload \/ baload \/ caload \/ saload
    \/ iastore \/ lastore \/ fastore \/ dastore \/ aastore \/ bastore \/ castore \/ sastore

SpecArray == InitArray /\ [][NextArray]_vars

---------------------------------------------------------------------------
(* Methods on fields: a read or a write of an instance field on null or on *)
(* one of two instances, a write followed by a read of the same field, and *)
(* reads and writes of statics.                                            *)

\* The arguments and the code behind their loads.  The constant pool indices
\* 1 to 6 name instance fields of each value type, 7 and 8 statics.
FieldMethods ==
    LET refs == {Null, RefV(1), RefV(2)}
        vals == [i \in 1..10 |-> CASE i \in {1, 2, 7, 9, 10} -> {IntV(I32(5)), IntV(I32(-2))}
                                  [] i = 3 -> {LongV(I64(9))}
                                  [] i = 4 -> {FloatV(Flt("fin", 0, 1))}
                                  [] i = 5 -> {DoubleV(NaN)}
                                  [] OTHER -> {Null, RefV(2)}]
        insts == 1..6 \cup {9}
        statics == 7..8 \cup {10}
    IN  {<<<<r>>, <<OpCode.getfield, 0, i>>>> : r \in refs, i \in insts}
            \cup UNION {{<<<<r, v>>, <<OpCode.putfield, 0, i>>>> : r \in refs, v \in vals[i]} : i \in insts}
            \cup UNION {{<<<<r, v>>, <<OpCode.putfield, 0, i, OpCode.aload, 0, OpCode.getfield, 0, i>>>> :
                            r \in refs, v \in vals[i]} : i \in 1..6}
            \cup {<<<<>>, <<OpCode.getstatic, 0, i>>>> : i \in statics}
            \cup UNION {{<<<<v>>, <<OpCode.putstatic, 0, i, OpCode.getstatic, 0, i>>>> : v \in vals[i]} : i \in statics}

InitField ==
    \E m \in FieldMethods :
        \E tbl \in {<<>>} \cup {<<Entry(0, 2 * Len(m[1]) + Len(m[2]) + TailLen + 1, h[1], h[2])>> :
                        h \in {<<2 * Len(m[1]) + Len(m[2]) + 1, "any">>,
                               <<2 * Len(m[1]) + Len(m[2]) + 1, J_NPE>>,
                               <<2 * Len(m[1]) + Len(m[2]) + 1, J_ARITHMETIC_EX>>,
                               <<0, "any">>}} :
            LET zero == [i |-> IntV(I32(0)), s |-> IntV(I32(0)), l |-> LongV(I64(0)),
                         f |-> FloatV(Flt("zero", 0, 0)), d |-> DoubleV(Flt("zero", 0, 0)),
                         o |-> Null]
            IN  NewFrame(MethodCode(m[1], m[2], FALSE), tbl, m[1],
                         <<FieldsObj("inst", "A", zero),
                           FieldsObj("inst", "A", [zero EXCEPT !.i = IntV(I32(1)), !.o = RefV(1)]),
                           FieldsObj("class", "A", [si |-> IntV(I32(3)), so |-> RefV(1)])>>)

NextField ==
    \/ nop \/ iload \/ lload \/ fload \/ dload \/ aload \/ return_
    \/ get_static \/ put_static \/ get_field \/ put_field

SpecField == InitField /\ [][NextField]_vars

---------------------------------------------------------------------------
(* Methods that lock: monitor_enter or monitor_exit on the argument, an    *)
(* object or null.  The invoker may keep the object, and the method may    *)
(* drop its local before the instruction.                                  *)

InitMonitor ==
    \E r \in {Null, RefV(1)}, o \in {OpCode.monitorenter, OpCode.monitorexit},
       drops \in BOOLEAN, ext \in {0, 1}, held \in {<<>>, <<"enter">>} :
        \E tbl \in ArrayTables((IF drops THEN 5 ELSE 2) + 1) :
            NewFrame(ArrayCode(<<r>>, o, drops), tbl, <<r>>,
                     <<LockObj(ext, held), LockObj(1, <<>>)>>)

NextMonitor ==
    \/ nop \/ aload \/ aconst_null \/ astore \/ return_
    \/ monitor_enter \/ monitor_exit

SpecMonitor == InitMonitor /\ [][NextMonitor]_vars

---------------------------------------------------------------------------
(* Methods that abort: a deprecated instruction or a byte that is no       *)
(* opcode, first in the code or behind nops, with three bytes behind it,   *)
(* under no handler and under a handler for everything.                    *)

InitAbort ==
    \E o \in {OpCode.frem, OpCode.drem, OpCode.fneg, OpCode.dneg, OpCode.jsr, OpCode.ret,
              OpCode.wide, OpCode.goto_w, OpCode.jsr_w, 203, 254, 255},
       far \in BOOLEAN, b \in {0, 3} :
        \E tbl \in {<<>>, <<Entry(0, AtOf(<<>>, far) + TailLen + 4, AtOf(<<>>, far) + 5, "any")>>} :
            NewFrame(MethodCode(<<>>, <<o, 0, b, 0>>, far), tbl, <<>>, <<>>)

NextAbort ==
    \/ nop \/ frem \/ drem \/ fneg \/ dneg \/ jsr \/ ret \/ wide \/ goto_w \/ jsr_w
    \/ undefined_bytecode

SpecAbort == InitAbort /\ [][NextAbort]_vars

---------------------------------------------------------------------------
(* Methods that end: a return of each type, of a pushed byte, athrow on an  *)
(* exception object or on null, and 7 / 0, under no handler, a handler in  *)
(* the tail and a handler at offset 0.  The tail ends in return.           *)

InitReturn ==
    \E m \in {<<<<IntV(I32(7))>>, <<OpCode.ireturn>>>>, <<<<LongV(I64(7))>>, <<OpCode.lreturn>>>>,
              <<<<FloatV(NaN)>>, <<OpCode.freturn>>>>, <<<<DoubleV(NaN)>>, <<OpCode.dreturn>>>>,
              <<<<Null>>, <<OpCode.areturn>>>>, <<<<RefV(1)>>, <<OpCode.areturn>>>>,
              <<<<RefV(2)>>, <<OpCode.areturn>>>>, <<<<>>, <<OpCode.nop>>>>,
              <<<<Null>>, <<OpCode.athrow>>>>, <<<<RefV(1)>>, <<OpCode.athrow>>>>,
              <<<<RefV(2)>>, <<OpCode.athrow>>>>,
              <<<<IntV(I32(7)), IntV(I32(0))>>, <<OpCode.idiv>>>>,
              <<<<IntV(I32(7)), IntV(I32(0))>>, <<OpCode.idiv, OpCode.ireturn>>>>}
             \cup {<<<<>>, <<OpCode.bipush, b>>>> : b \in {0, 127, 128, 255}}
             \cup {<<<<>>, <<OpCode.bipush, 255, OpCode.ireturn>>>>},
       far \in BOOLEAN :
        \E tbl \in {<<>>} \cup
                   {<<Entry(0, AtOf(m[1], far) + Len(m[2]) + TailLen + 1, h, c)>> :
                       h \in {0, AtOf(m[1], far) + Len(m[2]) + 1},
                       c \in {"any", "java/io/IOException"}} :
            NewFrame(MethodCode(m[1], m[2], far), tbl, m[1],
                     <<InstObj("java/io/IOException", ""), InstObj("java/lang/Object", "")>>)

NextReturn ==
    \/ nop \/ iload \/ lload \/ fload \/ dload \/ aload
    \/ ireturn \/ lreturn \/ freturn \/ dreturn \/ areturn \/ return_
    \/ athrow_step \/ idiv \/ bipush

SpecReturn == InitReturn /\ [][NextReturn]_vars

---------------------------------------------------------------------------
(* Methods with one instruction that carries operand bytes: the class file *)
(* format gives each its operands; their last byte is 0 or 1.  The switches *)
(* are aligned to 4 bytes behind the opcode, tableswitch with the one case *)
(* 0, lookupswitch with no pair.                                           *)

\* The bytes between the opcode at offset at and the next 4-byte boundary.
Padding(at) == (4 - ((at + 1) % 4)) % 4

Operands(o, at, b) ==
    CASE o \in {OpCode.tableswitch} -> [i \in 1..(Padding(at) + 15) |-> 0] \o <<b>>
      [] o \in {OpCode.lookupswitch} -> [i \in 1..(Padding(at) + 3) |-> 0] \o <<b, 0, 0, 0, 0>>
      [] o \in {OpCode.invokeinterface, OpCode.invokedynamic} -> <<0, 1, b, 0>>
      [] o = OpCode.multianewarray -> <<0, 1, b>>
      [] o \in {OpCode.newarray, OpCode.bipush} -> <<b>>
      [] OTHER -> <<0, b>>

InitOperand ==
    \E o \in {OpCode.tableswitch, OpCode.lookupswitch, OpCode.invokevirtual,
              OpCode.invokespecial, OpCode.invokestatic, OpCode.invokeinterface,
              OpCode.invokedynamic, OpCode.newarray, OpCode.anewarray, OpCode.checkcast,
              OpCode.instanceof, OpCode.multianewarray, OpCode.bipush},
       far \in BOOLEAN, b \in {0, 1} :
        NewFrame(MethodCode(<<>>, <<o>> \o Operands(o, AtOf(<<>>, far), b), far), <<>>, <<>>,
                 <<InstObj("java/lang/Object", "")>>)

NextOperand ==
    \/ nop \/ aconst_null \/ bipush \/ return_
    \/ table_switch \/ lookup_switch
    \/ invoke_virtual \/ invoke_special \/ invoke_static \/ invoke_interface \/ invoke_dynamic
    \/ new_array \/ anew_array \/ multi_anew_array \/ check_cast \/ instance_of

SpecOperand == InitOperand /\ [][NextOperand]_vars

---------------------------------------------------------------------------
(* Methods that create an instance of the frame's class A, of another      *)
(* class B, of a class C whose initializer throws, and through an entry    *)
(* that names no class.                                                    *)

InitNew ==
    \E i \in 1..4, far \in BOOLEAN :
        \E tbl \in {<<>>} \cup {<<Entry(0, AtOf(<<>>, far) + TailLen + 4, AtOf(<<>>, far) + 4, c)>> :
                                   c \in {"any", J_NPE}} :
            NewFrame(MethodCode(<<>>, <<OpCode.new, 0, i>>, far), tbl, <<>>,
                     <<FieldsObj("class", "A", <<>>), FieldsObj("class", "B", <<>>),
                       FieldsObj("class", "C", <<>>)>>)

NextNew == nop \/ new_ \/ return_

SpecNew == InitNew /\ [][NextNew]_vars

---------------------------------------------------------------------------
(* Methods that increment one of two int locals: the method loads both     *)
(* locals, in order, and then runs iinc on local 0 or 1 with a constant    *)
(* byte of each sign.                                                      *)

InitIinc ==
    \E a \in {I32(-1), I32(0), I32(5), BvShl(I32(1), 31), BvNot(BvShl(I32(1), 31))},
       pos \in {0, 1}, c \in {0, 1, 127, 128, 255}, far \in BOOLEAN :
        NewFrame(MethodCode(<<IntV(a), IntV(I32(7))>>, <<OpCode.iinc, pos, c>>, far), <<>>,
                 <<IntV(a), IntV(I32(7))>>, <<InstObj("java/lang/Object", "")>>)

NextIinc == nop \/ iload \/ iinc \/ return_

SpecIinc == InitIinc /\ [][NextIinc]_vars

---------------------------------------------------------------------------
(* Methods that copy on the stack: the arguments, references to distinct   *)
(* objects and null, are loaded in order, then one instruction of the dup  *)
(* family or swap runs, or swap twice.                                     *)

InitStack ==
    \E args \in {<<Null, RefV(1), RefV(2), RefV(3), RefV(4)>>,
                 <<RefV(4), RefV(3), RefV(2), RefV(1)>>,
                 <<RefV(1), RefV(2), Null, RefV(2)>>,
                 <<RefV(3), RefV(3), RefV(1), Null, RefV(2)>>},
       body \in {<<OpCode.dup>>, <<OpCode.dup_x1>>, <<OpCode.dup_x2>>, <<OpCode.dup2>>,
                 <<OpCode.dup2_x1>>, <<OpCode.dup2_x2>>, <<OpCode.swap>>,
                 <<OpCode.swap, OpCode.swap>>, <<OpCode.dup_x1, OpCode.swap>>},
       far \in BOOLEAN :
        NewFrame(MethodCode(args, body, far), <<>>, args,
                 <<InstObj("java/lang/Object", ""), InstObj("java/lang/Object", ""),
                   InstObj("java/lang/Object", ""), InstObj("java/lang/Object", "")>>)

NextStack ==
    \/ nop \/ aload \/ return_
    \/ dup \/ dup_x1 \/ dup_x2 \/ dup2 \/ dup2_x1 \/ dup2_x2 \/ swap

SpecStack == InitStack /\ [][NextStack]_vars

---------------------------------------------------------------------------
(* What the last instruction step did, read from the step record.          *)

\* The 2-byte operand behind the opcode of the last step, as a signed offset.
OperandOffset ==
    LET n == code[step.at + 2] * 256 + code[step.at + 3]
    IN  IF n >= 32768 THEN n - 65536 ELSE n

\* The last step searched the handler table for an exception.
Dispatched == step.thrown # None
ThrownObj == heap[step.thrown.id]
\* The last step entered a handler.
HandlerTaken == \E i \in DOMAIN step.log : step.log[i] = "goto_abs"
\* Entry i covers the instruction of the last step and matches its exception.
CatchesAt(i) == Catches(table[i], step.at, ThrownObj.cls)
FirstCatching(i) == CatchesAt(i) /\ \A j \in 1..(i - 1) : ~CatchesAt(j)
\* The steps of the dispatch the last step logged, without the handler's part.
DispatchLog == SelectSeq(step.log, LAMBDA e : e \in {"clear", "push_ext", "clear_ext", "search"})

\* The operands of the last step, in the order they were pushed.
Left == step.pre[Len(step.pre) - 1]
Right == step.pre[Len(step.pre)]
Below == SubSeq(step.pre, 1, Len(step.pre) - 2)

---------------------------------------------------------------------------
(* Branches.                                                               *)

\* C1: a taken branch whose opcode is at offset p and whose operand encodes o
\* leaves the frame at offset p + o, the next instruction it fetches.
C1_TakenBranchLandsOnTarget ==
    (step.taken /\ status = "running") => pc = step.at + OperandOffset

\* C1 failing input: if_icmpeq at offset OpAt with the operand bytes 0x00 0x05 and
\* equal operands leaves pc 7 behind the opcode, not 5.
C1_IfIcmpeqLandsTwoBehind ==
    /\ step.op = "if_icmpeq" /\ step.at = OpAt /\ step.taken
    /\ OperandOffset = 5
    /\ status = "running" /\ pc = step.at + 7

---------------------------------------------------------------------------
(* Exception dispatch.                                                     *)

C3_DispatchEndsInHandler ==
    Dispatched =>
        /\ "clear" \in {step.log[i] : i \in DOMAIN step.log} =>
               DispatchLog = <<"clear", "push_ext", "clear_ext", "search">>
        /\ \A i \in 1..Len(table) : FirstCatching(i) =>
               /\ pc = table[i].handler_pc
               /\ stack = <<step.thrown>>
               /\ return_v = None
               /\ exception = None

\* C3 failing input: the only entry catches the exception and its handler is at
\* offset 0; the exception becomes the return value and no handler is entered.
C3_HandlerAtZeroNotEntered ==
    /\ Dispatched /\ Len(table) = 1 /\ CatchesAt(1) /\ table[1].handler_pc = 0
    /\ ~HandlerTaken /\ return_v = step.thrown /\ stack = <<>>

\* C4: an exception no entry catches becomes the frame's return value; the
\* pending slot is empty and pc is not moved to a handler.
C4_UnhandledBecomesReturnValue ==
    (Dispatched /\ \A i \in 1..Len(table) : ~CatchesAt(i)) =>
        /\ return_v = step.thrown
        /\ exception = None
        /\ ~HandlerTaken
        /\ pc = step.at + 1

\* C4 witness: a division by zero under a table whose two entries do not catch it.
C4_FaultUnhandled ==
    /\ step.op = "idiv" /\ Dispatched /\ Len(table) = 2
    /\ \A i \in 1..Len(table) : ~CatchesAt(i)
    /\ return_v = step.thrown

---------------------------------------------------------------------------
(* Division.                                                               *)

\* The last step was an integer or long division or remainder by zero.
ZeroDivisor ==
    /\ step.op \in {"idiv", "ldiv", "irem", "lrem"}
    /\ BvIsZero(Right.bits)

\* C5: idiv, ldiv, irem and lrem by zero throw a new ArithmeticException with
\* the message "divide by zero", push no result, and dispatch it: a handler
\* is entered with the exception on the stack, or it becomes the return value.
C5_DivideByZeroFaults ==
    ZeroDivisor =>
        /\ Dispatched
        /\ step.thrown.id > Len(step.heap0)
        /\ ThrownObj = InstObj(J_ARITHMETIC_EX, "divide by zero")
        /\ step.log[1] = "throw_ext"
        /\ DispatchLog = <<"clear", "push_ext", "clear_ext", "search">>
        /\ \/ HandlerTaken /\ stack = <<step.thrown>> /\ return_v = None
           \/ ~HandlerTaken /\ stack = <<>> /\ return_v = step.thrown
        /\ exception = None

\* C5 witness: a long remainder by zero caught by a handler for ArithmeticException.
C5_DivideByZeroCaught ==
    /\ ZeroDivisor /\ step.op = "lrem" /\ HandlerTaken
    /\ table[1].catch_type = J_ARITHMETIC_EX
    /\ pc = table[1].handler_pc
    /\ stack = <<step.thrown>>

\* C6: fdiv and ddiv push the IEEE quotient for every pair of operands and
\* throw nothing.
C6_FloatDivisionNeverFaults ==
    step.op \in {"fdiv", "ddiv"} =>
        /\ ~Dispatched
        /\ exception = None
        /\ status = "running"
        /\ stack = Append(Below, [t |-> Left.t, f |-> FltDiv(Left.f, Right.f)])

\* C6 failing input: 1.0 / 0.0 by fdiv throws ArithmeticException.
C6_OneByZeroThrows ==
    /\ step.op = "fdiv" /\ Left.f = Flt("fin", 0, 0) /\ Right.f = Flt("zero", 0, 0)
    /\ Dispatched /\ ThrownObj = InstObj(J_ARITHMETIC_EX, "divide by zero")

---------------------------------------------------------------------------
(* Operand order.                                                          *)

BinaryOps ==
    {"iadd", "ladd", "isub", "lsub", "imul", "lmul", "idiv", "ldiv", "irem", "lrem",
     "iand", "land", "ior", "lor", "ixor", "lxor", "ishl", "lshl", "ishr", "lshr",
     "iushr", "lushr"}

\* C10: an integer or long binary operation that pushes a result pushes
\* left <op> right, where left was pushed earlier and right last.
C10_LeftOperandPushedFirst ==
    (step.op \in BinaryOps /\ status = "running" /\ ~Dispatched) =>
        stack = Append(Below, [t |-> Left.t,
                               bits |-> BinOp(step.op, Left.bits, Right.bits)])

\* C10 witness: 3; 2; isub pushed 1.
C10_ThreeMinusTwo ==
    /\ step.op = "isub"
    /\ step.pre = <<IntV(I32(3)), IntV(I32(2))>>
    /\ stack = <<IntV(I32(1))>>

---------------------------------------------------------------------------
(* Array accesses.                                                         *)

LoadNames == {"iaload", "laload", "faload", "daload", "aaload", "baload", "caload", "saload"}
StoreNames ==
    {"iastore", "lastore", "fastore", "dastore", "aastore", "bastore", "castore", "sastore"}

\* The array reference and the index the last step, a load or a store, was given.
AccessRef ==
    IF step.op \in LoadNames THEN step.pre[Len(step.pre) - 1] ELSE step.pre[Len(step.pre) - 2]
AccessIndex ==
    BvToInt((IF step.op \in LoadNames THEN step.pre[Len(step.pre)]
             ELSE step.pre[Len(step.pre) - 1]).bits)
AccessLen == Len(step.heap0[AccessRef.id].elems)

\* The last step threw a new exception of class cls with message msg and
\* dispatched it: a handler was entered with the exception as the only stack
\* value, or the exception became the return value.
Faulted(cls, msg) ==
    /\ status = "running"
    /\ Dispatched
    /\ step.thrown.id > Len(step.heap0)
    /\ ThrownObj = InstObj(cls, msg)
    /\ step.log[1] = "throw_ext"
    /\ DispatchLog = <<"clear", "push_ext", "clear_ext", "search">>
    /\ \/ HandlerTaken /\ stack = <<step.thrown>> /\ return_v = None
       \/ ~HandlerTaken /\ stack = <<>> /\ return_v = step.thrown
    /\ exception = None

\* C7: a load or store on an array with an index outside 0..length-1 throws
\* ArrayIndexOutOfBoundsException with the message "length is L, but index is I",
\* pushes no element and leaves the array as it was; an access with an index
\* inside throws nothing.
C7_BoundsCheckedAccess ==
    (step.op \in LoadNames \cup StoreNames /\ AccessRef # Null) =>
        IF AccessIndex < 0 \/ AccessIndex >= AccessLen
        THEN /\ Faulted(J_ARRAY_INDEX_OUT_OF_BOUNDS,
                        "length is " \o ToString(AccessLen) \o ", but index is "
                            \o ToString(AccessIndex))
             /\ heap[AccessRef.id] = step.heap0[AccessRef.id]
        ELSE ~Dispatched /\ exception = None

\* C7 failing input: iastore at index length on an array its local still holds
\* panics; no exception is thrown.
C7_SharedArrayStorePanics ==
    /\ step.op = "iastore" /\ AccessRef # Null /\ AccessIndex = AccessLen
    /\ local[1] = AccessRef
    /\ status = "panic" /\ ~Dispatched

\* C8: every array load on null throws NullPointerException and dispatches it,
\* whatever the index.
C8_LoadFromNullThrowsNPE ==
    (step.op \in LoadNames /\ AccessRef = Null) => Faulted(J_NPE, "")

\* C8 witness: aaload on null with an index below 0 is caught by a handler for
\* NullPointerException.
C8_NullLoadCaught ==
    /\ step.op = "aaload" /\ AccessRef = Null /\ AccessIndex < 0
    /\ HandlerTaken /\ table[1].catch_type = J_NPE
    /\ ThrownObj.cls = J_NPE
    /\ stack = <<step.thrown>>

\* C9: every array store on null throws NullPointerException and dispatches it;
\* the step does not end in a panic.
C9_StoreToNullThrowsNPE ==
    (step.op \in StoreNames /\ AccessRef = Null) => Faulted(J_NPE, "")

\* C9 failing input: iastore on null panics; no exception is thrown.
C9_NullStorePanics ==
    /\ step.op = "iastore" /\ AccessRef = Null
    /\ status = "panic" /\ ~Dispatched

---------------------------------------------------------------------------
(* Wrapping arithmetic and shifts.                                         *)

\* C11: iadd, isub, imul, ineg, ladd, lsub, lmul and lneg never abort on
\* overflow: for every operand they push the mathematical result reduced
\* modulo 2^32 (2^64 for long).
C11_OverflowWraps ==
    /\ step.op \in {"iadd", "isub", "imul", "ladd", "lsub", "lmul"} =>
        /\ status = "running"
        /\ stack = Append(Below, [t |-> Left.t,
                                  bits |-> BinOp(step.op, Left.bits, Right.bits)])
    /\ step.op \in {"ineg", "lneg"} =>
        /\ status = "running"
        /\ stack = Append(SubSeq(step.pre, 1, Len(step.pre) - 1),
                          [t |-> Right.t, bits |-> BvNeg(Right.bits)])

\* C11 failing input: ineg on i32::MIN aborts in a build with overflow checks.
C11_NegateMinPanics ==
    /\ step.op = "ineg" /\ step.pre = <<IntV(BvShl(I32(1), 31))>>
    /\ status = "panic" /\ step.panic = "attempt to negate with overflow"
    /\ stack = <<>>

\* C12: iushr and lushr push, for every v1 and every shift amount, the logical
\* zero-filling right shift of v1 by the amount masked to 5 (6) bits, and never
\* abort; a masked amount of 0 leaves v1.
C12_LogicalShiftRight ==
    step.op \in {"iushr", "lushr"} =>
        LET v1 == Left.bits
            s == ShiftBy(Right.bits, IF step.op = "iushr" THEN 31 ELSE 63)
            w == 8 * Len(v1)
            shifted == BvOfBits([i \in 0..(w - 1) |->
                                    IF i + s < w THEN BvBit(v1, i + s) ELSE 0], Len(v1))
        IN  /\ status = "running"
            /\ stack = Append(Below, [t |-> Left.t, bits |-> shifted])
            /\ s = 0 => stack = Append(Below, Left)

\* C12 failing input: -1 >>> 33 by iushr aborts in a build with overflow checks.
C12_NegativeOperandPanics ==
    /\ step.op = "iushr" /\ step.pre = <<IntV(I32(-1)), IntV(I32(33))>>
    /\ status = "panic" /\ step.panic = "arithmetic overflow"

\* C13: ishl, ishr and iushr use only the low 5 bits of the shift amount, lshl,
\* lshr and lushr only the low 6: the step on an amount ends as the step on the
\* amount masked with 0x1F (0x3F) does, for every int amount.
C13_ShiftAmountMasked ==
    step.op \in {"ishl", "ishr", "iushr", "lshl", "lshr", "lushr"} =>
        LET mask == IF step.op \in {"ishl", "ishr", "iushr"} THEN 31 ELSE 63
            masked == BvAnd(Right.bits, I32(mask))
        IN  /\ status = "running" =>
                stack = Append(Below, [t |-> Left.t,
                                       bits |-> BinOp(step.op, Left.bits, masked)])
            /\ status = "panic" => Overflows(step.op, Left.bits, masked)

\* C13 witness: 3 << 33 by ishl pushed 6, as 3 << 1 does.
C13_ShiftByThirtyThree ==
    /\ step.op = "ishl"
    /\ step.pre = <<IntV(I32(3)), IntV(I32(33))>>
    /\ stack = <<IntV(I32(6))>>

\* C14: for every v1 and every non-zero v2, irem and lrem push
\* v1 - (v1 / v2) * v2 with truncating division: the result is 0 or has the
\* sign of v1, and its magnitude is below that of v2.
C14_RemainderSignOfDividend ==
    (step.op \in {"irem", "lrem"} /\ ~BvIsZero(Right.bits)) =>
        LET r == RemOf(Left.bits, Right.bits)
        IN  /\ status = "running"
            /\ stack = Append(Below, [t |-> Left.t, bits |-> r])
            /\ BvIsZero(r) \/ BvSign(r) = BvSign(Left.bits)
            /\ BvULt(BvAbs(r), BvAbs(Right.bits))

\* C14 failing input: i32::MIN % -1 by irem aborts in the division.
C14_MinRemMinusOnePanics ==
    /\ step.op = "irem"
    /\ step.pre = <<IntV(BvShl(I32(1), 31)), IntV(I32(-1))>>
    /\ status = "panic" /\ step.panic = "attempt to divide with overflow"
    /\ stack = <<>>

---------------------------------------------------------------------------
(* Conversions and comparisons of floating-point values.                   *)

C16_NaNOrdersByVariant ==
    step.op \in {"fcmpl", "fcmpg", "dcmpl", "dcmpg"} =>
        LET nan == Left.f.k = "nan" \/ Right.f.k = "nan"
            r == IF nan THEN (IF step.op \in {"fcmpl", "dcmpl"} THEN -1 ELSE 1)
                 ELSE IF FltLt(Left.f, Right.f) THEN -1
                 ELSE IF FltLt(Right.f, Left.f) THEN 1
                 ELSE 0
        IN  /\ status = "running" /\ ~Dispatched
            /\ stack = Append(Below, IntV(I32(r)))

\* C16 witness: fcmpg on NaN and 1.0 pushed 1.
C16_NaNFirstGreater ==
    /\ step.op = "fcmpg"
    /\ step.pre = <<FloatV(NaN), FloatV(Flt("fin", 0, 0))>>
    /\ stack = <<IntV(I32(1))>>

\* C17: lcmp, and the float comparisons on operands that are not NaN, compare
\* in push order: with v1 pushed earlier and v2 last, both are popped and -1
\* is pushed if v1 < v2, 0 if they are equal and 1 if v1 > v2; the stack
\* below is unchanged.
C17_ComparesInPushOrder ==
    /\ step.op = "lcmp" =>
        /\ status = "running"
        /\ stack = Append(Below, IntV(I32(IF BvSLt(Left.bits, Right.bits) THEN -1
                                          ELSE IF Left.bits = Right.bits THEN 0 ELSE 1)))
    /\ (/\ step.op \in {"fcmpl", "fcmpg", "dcmpl", "dcmpg"}
        /\ Left.f.k # "nan" /\ Right.f.k # "nan") =>
        /\ status = "running"
        /\ stack = Append(Below, IntV(I32(IF FltLt(Left.f, Right.f) THEN -1
                                          ELSE IF FltLt(Right.f, Left.f) THEN 1 ELSE 0)))

\* C17 witness: 2; 3; lcmp pushed -1.
C17_TwoBelowThree ==
    /\ step.op = "lcmp"
    /\ step.pre = <<LongV(I64(2)), LongV(I64(3))>>
    /\ stack = <<IntV(I32(-1))>>

---------------------------------------------------------------------------
(* Fields.                                                                 *)

\* C18: get_field and put_field on a null receiver throw a new
\* NullPointerException and dispatch it, and write no field of any object or
\* class: the heap differs from the one before the step by new exception
\* objects only, the last of them the NullPointerException.
C18_NullReceiverThrowsNPE ==
    (\/ step.op = "get_field" /\ Right = Null
     \/ step.op = "put_field" /\ Left = Null) =>
        /\ Faulted(J_NPE, "")
        /\ SubSeq(heap, 1, Len(step.heap0)) = step.heap0
        /\ step.thrown.id = Len(heap)
        /\ \A i \in (Len(step.heap0) + 1)..Len(heap) : heap[i].kind = "inst" /\ "fields" \notin DOMAIN heap[i]

\* C18 witness: put_field of 5 into field i of null is caught by a handler for
\* NullPointerException, and no instance has the 5.
C18_NullPutCaught ==
    /\ step.op = "put_field" /\ Left = Null /\ Right = IntV(I32(5))
    /\ OperandOffset = 1
    /\ HandlerTaken /\ table[1].catch_type = J_NPE
    /\ stack = <<step.thrown>>
    /\ heap[1].fields.i = IntV(I32(0)) /\ heap[2].fields.i = IntV(I32(1))

\* C19: get_field on a receiver that is not null pops the receiver and pushes
\* one value, the current value of the field the operand names, typed by the
\* field's value type; so after put_field it pushes the value written.
C19_GetFieldPushesValue ==
    (step.op = "get_field" /\ Right # Null) =>
        LET v == step.heap0[Right.id].fields[get_field_ref(OperandOffset, FALSE).name]
        IN  /\ status = "running" /\ ~Dispatched
            /\ v.t = StackType(get_field_ref(OperandOffset, FALSE).value_type)
            /\ stack = Append(SubSeq(step.pre, 1, Len(step.pre) - 1), v)

\* C19 failing input: after put_field of 5 into field i of the first instance,
\* get_field of i on it pops the receiver and pushes nothing.
C19_WrittenValueNotPushed ==
    /\ step.op = "get_field" /\ Right = RefV(1) /\ OperandOffset = 1
    /\ heap[1].fields.i = IntV(I32(5))
    /\ status = "running" /\ stack = <<>>

---------------------------------------------------------------------------
(* A thrown null.                                                          *)

\* C20: athrow on null never propagates null as the thrown value: it throws a
\* new NullPointerException, and the value a handler finds on the stack, or
\* the return value when no handler is entered, is that exception.
C20_ThrownNullBecomesNPE ==
    (step.op = "athrow" /\ Right = Null) =>
        /\ status = "running"
        /\ step.thrown # None /\ step.thrown # Null
        /\ step.thrown.id = Len(step.heap0) + 1
        /\ heap[step.thrown.id] = InstObj(J_NPE, "")
        /\ IF HandlerTaken
           THEN stack = <<step.thrown>> /\ return_v = None
           ELSE return_v = step.thrown
        /\ exception = None

\* C20 witness: athrow on null with no handler in the table returned the new
\* NullPointerException.
C20_NullThrownUnhandled ==
    /\ step.op = "athrow" /\ step.pre = <<Null>> /\ table = <<>>
    /\ return_v = RefV(3) /\ heap[3].cls = J_NPE

---------------------------------------------------------------------------
(* Monitors.                                                               *)

\* C21: monitor_enter and monitor_exit on null throw a NullPointerException
\* that is dispatched (a handler can catch it), send no request to any lock,
\* and never end in an abort.
C21_MonitorOnNullThrowsNPE ==
    (step.op \in {"monitor_enter", "monitor_exit"} /\ Right = Null) =>
        /\ Faulted(J_NPE, "")
        /\ heap = Append(step.heap0, InstObj(J_NPE, ""))

\* C21 failing input: monitor_enter on null, under a handler for
\* NullPointerException, aborts.
C21_MonitorOnNullPanics ==
    /\ step.op = "monitor_enter" /\ step.pre = <<Null>>
    /\ Len(table) = 1 /\ table[1].catch_type = J_NPE
    /\ status = "panic" /\ step.panic = "called Option::unwrap() on a None value"
    /\ ~Dispatched /\ heap = step.heap0

\* C22: monitor_enter (monitor_exit) on a reference that is not null sends one
\* enter (exit) request to the lock of that object, whoever else holds the
\* object, and neither throws nor aborts.
C22_MonitorForwardsOnce ==
    (step.op \in {"monitor_enter", "monitor_exit"} /\ Right # Null) =>
        /\ status = "running" /\ ~Dispatched /\ exception = None
        /\ stack = SubSeq(step.pre, 1, Len(step.pre) - 1)
        /\ heap = [step.heap0 EXCEPT ![Right.id].lock =
                       Append(@, IF step.op = "monitor_enter" THEN "enter" ELSE "exit")]

\* C22 failing input: monitor_exit on an object that local 0 still holds aborts
\* and the lock receives nothing.
C22_SharedObjectPanics ==
    /\ step.op = "monitor_exit" /\ step.pre = <<RefV(1)>> /\ local[1] = RefV(1)
    /\ heap[1] = LockObj(0, <<"enter">>)
    /\ status = "panic" /\ step.panic = "called Option::unwrap() on a None value"

---------------------------------------------------------------------------
(* Aborts.                                                                 *)

\* The text sub occurs in the text msg.
Has(msg, sub) ==
    \E i \in 1..(Len(msg) - Len(sub) + 1) : SubSeq(msg, i, i + Len(sub) - 1) = sub

\* C23: jsr, ret, wide, goto_w, jsr_w, fneg, dneg, frem and drem always end in
\* an abort, with nothing thrown and no continuation, and the abort's
\* diagnostic names the instruction and the offset it was met at.
C23_DeprecatedAbortsWithOffset ==
    step.op \in {"jsr", "ret", "wide", "goto_w", "jsr_w", "fneg", "dneg", "frem", "drem"} =>
        /\ status = "panic"
        /\ ~Dispatched /\ exception = None /\ return_v = None
        /\ Has(step.panic, "instruction " \o step.op \o ",")
        /\ Has(step.panic, ToString(step.at))

\* C23 failing input: jsr at offset 10 aborts with a diagnostic that holds the
\* name only.
C23_DiagnosticWithoutOffset ==
    /\ step.op = "jsr" /\ step.at = OpAt
    /\ status = "panic"
    /\ step.panic = "Use of deprecated instruction jsr, please check your Java compiler"

\* C24: a byte that is no opcode ends execution in an abort reported as
\* undefined bytecode, with the value of the byte and the offset of that byte.
C24_UndefinedBytecodeReported ==
    step.op = "other_wise" =>
        /\ status = "panic"
        /\ ~Dispatched /\ exception = None /\ return_v = None
        /\ step.panic = "Use of undefined bytecode: " \o ToString(code[step.at + 1])
                            \o " at " \o ToString(step.at)

\* C24 witness: the byte 254 at offset 10 is reported with both numbers.
C24_ByteAndOffsetReported ==
    /\ step.op = "other_wise" /\ step.at = OpAt /\ code[OpAt + 1] = 254
    /\ status = "panic"
    /\ step.panic = "Use of undefined bytecode: 254 at 10"

---------------------------------------------------------------------------
(* The frame's result.                                                     *)

Outcome(f) == <<f.return_v, f.exception>>
\* The frame as areturn of e leaves it when nothing is pending before it.
AfterAreturnOf(e) ==
    ReturnValue([Cur("areturn") EXCEPT !.stack = <<e>>, !.return_v = None,
                                       !.exception = None])
\* The last step threw an exception object that no handler took.
UnhandledThrow ==
    /\ step.op = "athrow" /\ Dispatched /\ ~HandlerTaken
    /\ step.log[1] = "search" /\ return_v # None

\* C26: an execution that ends with an unhandled throw of e leaves a pair
\* (return_v, pending exception) different from the pair an execution that
\* ends with areturn of the same e leaves.
C26_ThrowAndReturnDiffer ==
    UnhandledThrow => Outcome(Cur("athrow")) # Outcome(AfterAreturnOf(step.thrown))

\* C26 counterexample: after an unhandled throw of e the pair is (e, nothing
\* pending).
C26_ThrowLeavesNoMark ==
    UnhandledThrow => ~(return_v = step.thrown /\ exception = None)

\* C26 witness: areturn of the IOException object 1 leaves (object 1, nothing
\* pending), the pair its unhandled throw leaves.
C26_ReturnedException ==
    /\ step.op = "areturn" /\ return_v = RefV(1) /\ exception = None
    /\ heap[1].cls = "java/io/IOException"
    /\ Outcome(Cur("areturn")) = Outcome(athrow([Cur("athrow") EXCEPT !.stack = <<RefV(1)>>,
                                                     !.return_v = None, !.table = <<>>]))

---------------------------------------------------------------------------
(* The pending exception between instructions.                             *)

\* C27: at the end of every instruction step nothing is pending on the
\* thread: a fault recorded during the step, also one recorded by the
\* resolution of a field reference, has been taken by a handler or has become
\* the frame's result.
C27_NothingPendingAfterStep == exception = None

\* C27 counterexample: put_field on a receiver that is not null dispatches the
\* error the resolution of its field reference recorded.
C27_PutFieldDispatchesResolutionFault ==
    (step.op = "put_field" /\ Left # Null /\ OperandOffset \in Unlinked) => Dispatched

\* C27 failing input: put_field of 5 through the unlinked entry 9 on the first
\* instance writes the field and leaves the LinkageError pending, with no
\* dispatch, no handler entered and no result.
C27_ResolutionFaultLeftPending ==
    /\ step.op = "put_field" /\ Left = RefV(1) /\ Right = IntV(I32(5)) /\ OperandOffset = 9
    /\ exception = RefV(Len(heap)) /\ heap[Len(heap)] = InstObj("java/lang/LinkageError", "")
    /\ ~Dispatched /\ return_v = None /\ status = "running"
    /\ table # <<>> /\ table[1].catch_type = "any"
    /\ heap[1].fields.i = IntV(I32(5))

---------------------------------------------------------------------------
(* The advance of the program counter over a branch.                       *)

ConditionalNames ==
    {"ifeq", "ifne", "iflt", "ifge", "ifgt", "ifle",
     "if_icmpeq", "if_icmpne", "if_icmplt", "if_icmpge", "if_icmpgt", "if_icmple",
     "if_acmpeq", "if_acmpne", "if_null", "if_non_null"}

\* C28: a conditional branch that is not taken, and one that is taken with the
\* encoded offset 3, both leave pc at the offset of the instruction behind the
\* 3-byte branch instruction.
C28_OneAdvanceDiscipline ==
    (step.op \in ConditionalNames /\ (step.taken => OperandOffset = 3)) =>
        /\ status = "running"
        /\ pc = step.at + 3

\* C28 counterexample: a conditional branch taken with the encoded offset 3
\* leaves pc where the same instruction leaves it when it is not taken.
C28_TakenByThreeFallsThrough ==
    (step.op \in ConditionalNames /\ step.taken /\ OperandOffset = 3) =>
        pc = TakeOrSkip([Cur(step.op) EXCEPT !.pc = step.at + 1], FALSE).pc

\* C28 failing input: ifeq at offset OpAt on 0 with the operand bytes 0x00 0x03
\* leaves pc 5 behind the opcode; on 1 it leaves pc 3 behind it.
C28_IfeqTakenLandsTwoFurther ==
    /\ step.op = "ifeq" /\ step.at = OpAt /\ step.taken /\ Right = IntV(I32(0))
    /\ OperandOffset = 3 /\ step.branch = 3
    /\ status = "running" /\ pc = step.at + 5
    /\ TakeOrSkip([Cur(step.op) EXCEPT !.pc = step.at + 1], FALSE).pc = step.at + 3

\* C29: a taken branch or goto whose operand encodes a negative offset moves
\* pc backward to the opcode's offset plus that offset, inside the code.
C29_BackwardBranch ==
    (step.taken /\ OperandOffset < 0) =>
        /\ status = "running"
        /\ pc = step.at + OperandOffset
        /\ pc < Len(code)

\* C29 counterexample: a taken branch with a negative encoded offset leaves pc
\* before the operand's end.
C29_NegativeOffsetMovesBack ==
    (step.taken /\ OperandOffset < 0 /\ status = "running") => pc < step.at + 3

\* C29 failing input: goto at offset OpAt with the operand bytes 0xFF 0xFB read
\* the offset 65531 and left pc at OpAt + 65533, behind the end of the code.
C29_GotoMinusFiveLeavesCode ==
    /\ step.op = "goto" /\ step.at = OpAt /\ step.taken
    /\ code[step.at + 2] = 255 /\ code[step.at + 3] = 251 /\ OperandOffset = -5
    /\ step.branch = 65531
    /\ status = "running" /\ pc = OpAt + 65533 /\ pc >= Len(code)

---------------------------------------------------------------------------
(* Reading one code byte.                                                  *)

\* The byte b as a signed 8-bit value.
SignedByte(b) == IF b >= 128 THEN b - 256 ELSE b

\* C30: on the code byte at pc, read_i1 returns its signed 8-bit value and
\* read_u1 returns it as 0..255, each advancing pc by exactly 1; bipush pushes
\* the signed value of its operand byte.
C30_SignedAndUnsignedByte ==
    /\ (pc >= 0 /\ pc < Len(code)) =>
          /\ read_i1(Cur("read")).ret = SignedByte(code[pc + 1])
          /\ read_u1(Cur("read")).ret = code[pc + 1]
          /\ read_i1(Cur("read")).pc = pc + 1
          /\ read_u1(Cur("read")).pc = pc + 1
    /\ step.op = "bipush" =>
          /\ status = "running" /\ pc = step.at + 2
          /\ stack = Append(step.pre, IntV(I32(SignedByte(code[step.at + 2]))))

\* C30 counterexample: bipush with the operand byte 0xFF pushes a negative int.
C30_BipushPushesNegative ==
    (step.op = "bipush" /\ code[step.at + 2] = 255) =>
        /\ Len(stack) = Len(step.pre) + 1
        /\ BvSLt(stack[Len(stack)].bits, I32(0))

\* C30 failing input: bipush 0xFF pushed 255, and read_i1 on the byte 0xFF
\* returns what read_u1 returns.
C30_BipushPushes255 ==
    /\ step.op = "bipush" /\ step.at = OpAt /\ code[step.at + 2] = 255
    /\ stack = <<IntV(I32(255))>> /\ pc = step.at + 2
    /\ read_i1([Cur("read") EXCEPT !.pc = step.at + 1]).ret = 255
    /\ read_u1([Cur("read") EXCEPT !.pc = step.at + 1]).ret = 255

---------------------------------------------------------------------------
(* Array stores: operand order and shared arrays.                          *)

\* The last step, a store, was given an array and an index inside it.
StoreInBounds ==
    /\ step.op \in StoreNames /\ AccessRef # Null
    /\ AccessIndex >= 0 /\ AccessIndex < AccessLen
\* Before the last step the operand stack was the only holder of the array.
SoleHolder ==
    /\ step.heap0[AccessRef.id].ext = 0
    /\ CountIn(local \o SubSeq(step.pre, 1, Len(step.pre) - 3), AccessRef) = 0
\* The last step wrote the value on top of the stack at the index below it in
\* the array below that, and removed the three.
Stored ==
    /\ status = "running" /\ ~Dispatched
    /\ heap = [step.heap0 EXCEPT ![AccessRef.id].elems[AccessIndex + 1] = Right]
    /\ stack = SubSeq(step.pre, 1, Len(step.pre) - 3)

\* C31: every array store, aastore included, on arrayref, index, value pushed
\* in this order and an index in bounds writes value at index of arrayref and
\* removes exactly these three stack positions.
C31_StoreTakesValueIndexArray == StoreInBounds => Stored

\* C31 counterexample: aastore on an array that only the operand stack holds,
\* with an index in bounds, stores the value.
C31_AastoreStoresValue ==
    (StoreInBounds /\ step.op = "aastore" /\ SoleHolder) => Stored

\* C31 failing input: aastore on array, 0, object 2, the array held by the
\* stack only, pops the object as the index and panics; nothing is stored.
C31_AastorePopsValueAsIndex ==
    /\ StoreInBounds /\ step.op = "aastore" /\ SoleHolder
    /\ AccessIndex = 0 /\ Right = RefV(2)
    /\ status = "panic" /\ ~Dispatched
    /\ heap = step.heap0

\* What an array load of the stored index through the holder rf pushes in the
\* state the last step left.
LoadedThrough(rf) ==
    ArrayLoad([Cur("load") EXCEPT !.stack = <<rf, IntV(I32(AccessIndex))>>,
                                  !.status = "running"]).stack

\* C32: an in-bounds array store on an array that has other holders than the
\* operand stack (a local slot, the invoker) updates the element without fault
\* or abort, and a load of that index through a holder pushes the stored value.
C32_SharedArrayStoreSucceeds ==
    (StoreInBounds /\ ~SoleHolder) =>
        /\ Stored
        /\ \A k \in DOMAIN local : local[k] = AccessRef => LoadedThrough(local[k]) = <<Right>>

\* C32 counterexample: iastore with an index in bounds on an array its local
\* slot still holds completes.
C32_HeldArrayStoreCompletes ==
    (StoreInBounds /\ step.op = "iastore" /\ local[1] = AccessRef) => status = "running"

\* C32 failing input: iastore of 1 at index 0 of the array local 0 holds, with
\* no holder outside the frame, panics; the element is as before.
C32_HeldArrayStorePanics ==
    /\ StoreInBounds /\ step.op = "iastore" /\ AccessIndex = 0 /\ Right = IntV(I32(1))
    /\ local[1] = AccessRef /\ step.heap0[AccessRef.id].ext = 0
    /\ status = "panic" /\ step.panic = "called Option::unwrap() on a None value"
    /\ ~Dispatched
    /\ heap = step.heap0 /\ LoadedThrough(local[1]) = <<IntV(I32(0))>>

---------------------------------------------------------------------------
(* A handler at offset 0.                                                  *)

\* C33: whenever an entry catches the dispatched exception, whatever the
\* handler offset of the first such entry, offset 0 included, the step ends
\* in that handler: pc is the offset, the exception is the only stack value
\* and the frame has no return value.
C33_AnyHandlerOffsetEntered ==
    Dispatched =>
        \A i \in 1..Len(table) : FirstCatching(i) =>
            /\ status = "running" /\ HandlerTaken
            /\ pc = table[i].handler_pc
            /\ stack = <<step.thrown>>
            /\ return_v = None

\* C33 counterexample: a dispatch whose first catching entry has its handler
\* at offset 0 does not set the frame's return value.
C33_HandlerAtZeroSetsNoResult ==
    (Dispatched /\ \E i \in 1..Len(table) : FirstCatching(i) /\ table[i].handler_pc = 0) =>
        return_v = None

\* C33 failing input: athrow at offset OpAt of the FileNotFoundException
\* under an entry for java/lang/Exception with its handler at offset 0 leaves
\* the exception as the return value and pc behind the athrow.
C33_AthrowSkipsHandlerAtZero ==
    /\ step.op = "athrow" /\ step.thrown = RefV(2) /\ step.at = OpAt
    /\ Len(table) = 1 /\ FirstCatching(1)
    /\ table[1].handler_pc = 0 /\ table[1].catch_type = "java/lang/Exception"
    /\ ~HandlerTaken /\ return_v = RefV(2) /\ stack = <<>> /\ pc = step.at + 1

---------------------------------------------------------------------------
(* get_static behind a dispatch.                                           *)

\* C34: when get_static dispatches an exception pending after the resolution
\* of its field reference, nothing is pushed behind the dispatch: in a handler
\* the exception is the only stack value, and with no handler the stack is
\* empty.
C34_NothingPushedAfterDispatch ==
    (step.op = "get_static" /\ Dispatched) =>
        stack = IF HandlerTaken THEN <<step.thrown>> ELSE <<>>

\* C34 counterexample: get_static that entered a handler leaves one value on
\* the stack.
C34_HandlerFindsOneValue ==
    (step.op = "get_static" /\ Dispatched /\ HandlerTaken) => Len(stack) = 1

\* C34 failing input: get_static through the unlinked entry 10 under a
\* catch-all handler enters the handler with the value of the static field si
\* on top of the LinkageError.
C34_FieldValueAboveException ==
    /\ step.op = "get_static" /\ OperandOffset = 10
    /\ Dispatched /\ HandlerTaken /\ ThrownObj.cls = "java/lang/LinkageError"
    /\ pc = table[1].handler_pc /\ exception = None /\ return_v = None
    /\ stack = <<step.thrown, IntV(I32(3))>>

---------------------------------------------------------------------------
(* Instruction boundaries.                                                 *)

\* The 4 bytes of the code from offset i as an unsigned number.
U4At(i) == ((code[i + 1] * 256 + code[i + 2]) * 256 + code[i + 3]) * 256 + code[i + 4]

\* The number of operand bytes the class file format gives the instruction
\* whose opcode is at offset at.
OperandBytes(at) ==
    LET o == code[at + 1]
        first == at + 1 + Padding(at)
    IN  CASE o = OpCode.tableswitch ->
                 Padding(at) + 12 + 4 * (U4At(first + 8) - U4At(first + 4) + 1)
          [] o = OpCode.lookupswitch -> Padding(at) + 8 + 8 * U4At(first + 4)
          [] o \in {OpCode.invokeinterface, OpCode.invokedynamic} -> 4
          [] o = OpCode.multianewarray -> 3
          [] o \in {OpCode.invokevirtual, OpCode.invokespecial, OpCode.invokestatic,
                    OpCode.anewarray, OpCode.checkcast, OpCode.instanceof} -> 2
          [] o \in {OpCode.newarray, OpCode.bipush} -> 1
          [] OTHER -> 0

\* C35: every handler that neither branches nor enters an exception handler
\* leaves pc just behind its own operand bytes, the handlers of the invoke,
\* switch, array allocation and type test instructions included, so that the
\* next fetch reads the opcode of the next instruction.
C35_PcBehindOwnOperands ==
    (step.op # "new" /\ status = "running" /\ ~step.taken /\ ~HandlerTaken) =>
        pc = step.at + 1 + OperandBytes(step.at)

\* C35 counterexample: invoke_virtual leaves pc behind its two operand bytes.
C35_InvokeVirtualSkipsIndex ==
    step.op = "invoke_virtual" => pc = step.at + 3

\* C35 failing input: behind invokevirtual 0 1 at offset OpAt the second
\* operand byte was fetched as the opcode aconst_null and pushed null.
C35_OperandRunAsOpcode ==
    /\ Len(code) > OpAt + 2
    /\ code[OpAt + 1] = OpCode.invokevirtual /\ OperandBytes(OpAt) = 2
    /\ step.op = "aconst_null" /\ step.at = OpAt + 2
    /\ stack = <<Null>> /\ status = "running"

---------------------------------------------------------------------------
(* The end of a dispatch.                                                  *)

\* The number of entries e in the log of the last step.
Logged(e) == Cardinality({i \in DOMAIN step.log : step.log[i] = e})
\* The last step raised a fault or executed athrow.
Raised == step.op = "athrow" \/ Logged("throw_ext") > 0

\* C36: every step that raises a fault or throws ends in exactly one of the
\* two outcomes, a handler entered or the exception as the return value, with
\* nothing pending; the table is searched once, handle_exception runs at most
\* once, and it runs inside athrow only for athrow on null.
C36_DispatchTerminates ==
    Raised =>
        /\ status = "running" /\ Dispatched /\ exception = None
        /\ HandlerTaken <=> return_v = None
        /\ ~HandlerTaken <=> return_v = step.thrown
        /\ Logged("search") = 1 /\ Logged("clear") <= 1
        /\ Logged("goto_abs") + Logged("set_return") = 1
        /\ (step.op = "athrow" /\ Logged("clear") = 1) => Right = Null

\* C36 witness: athrow on null under a handler for NullPointerException threw,
\* dispatched once and entered the handler.
C36_NullThrowDispatchedOnce ==
    /\ step.op = "athrow" /\ Right = Null
    /\ step.log = <<"throw_ext", "clear", "push_ext", "clear_ext", "search", "goto_abs">>
    /\ table # <<>> /\ table[1].catch_type = J_NPE /\ pc = table[1].handler_pc
    /\ stack = <<step.thrown>> /\ return_v = None /\ exception = None

---------------------------------------------------------------------------
(* Instance creation.                                                      *)

\* C37: new_ on an entry that names a class always completes, also when the
\* class is the frame's own: it pushes one new instance of the class, or it
\* dispatches the exception of the class initializer; it never blocks.
C37_NewCompletes ==
    (step.op = "new_" /\ require_class2(OperandOffset) # 0) =>
        /\ status = "running"
        /\ \/ /\ ~Dispatched
              /\ heap = Append(step.heap0, InstObj(heap[require_class2(OperandOffset)].cls, ""))
              /\ stack = Append(step.pre, RefV(Len(heap)))
           \/ Dispatched /\ exception = None

\* C37 counterexample: new_ on the entry of the frame's own class ends the
\* step running.
C37_OwnClassStepEnds ==
    (step.op = "new_" /\ require_class2(OperandOffset) = DeclaringClass) => status = "running"

\* C37 failing input: new_ on entry 1, the frame's class A, blocks on the lock
\* the step holds: nothing is pushed and no instance exists.
C37_BlockedOnOwnClass ==
    /\ step.op = "new_" /\ OperandOffset = 1 /\ heap[DeclaringClass].cls = "A"
    /\ status = "blocked"
    /\ stack = <<>> /\ heap = step.heap0 /\ ~Dispatched /\ pc = step.at + 3

---------------------------------------------------------------------------
(* Division of the minimum by -1.                                          *)

\* C38: idiv, ldiv, irem and lrem with a divisor that is not zero push exactly
\* one result and neither throw nor abort, for every dividend: the minimum
\* divided by -1 gives the minimum as quotient and 0 as remainder.
C38_NonZeroDivisorCompletes ==
    (step.op \in {"idiv", "ldiv", "irem", "lrem"} /\ ~BvIsZero(Right.bits)) =>
        /\ status = "running" /\ ~Dispatched /\ exception = None
        /\ stack = Append(Below,
               [t |-> Left.t,
                bits |-> IF ~BvDivOverflows(Left.bits, Right.bits)
                         THEN BinOp(step.op, Left.bits, Right.bits)
                         ELSE IF step.op \in {"idiv", "ldiv"} THEN Left.bits
                         ELSE BvZero(Len(Left.bits))])

\* C38 failing input: i64::MIN / -1 by ldiv aborts in the division; nothing is
\* pushed and nothing is thrown.
C38_MinDivMinusOnePanics ==
    /\ step.op = "ldiv"
    /\ step.pre = <<LongV(BvShl(I64(1), 63)), LongV(I64(-1))>>
    /\ status = "panic" /\ step.panic = "attempt to divide with overflow"
    /\ stack = <<>> /\ ~Dispatched

---------------------------------------------------------------------------
(* iinc.                                                                   *)

\* The locals before the last step, an iinc: the method has loaded every
\* local, in order, and changed none.
LocalsBefore == step.pre
\* The operand bytes of the last step.
IincPos == code[step.at + 2]
IincConst == code[step.at + 3]

\* C39: iinc adds its second operand byte, as a signed 8-bit constant, to the
\* int local its first operand byte names; the operand stack and the other
\* locals are unchanged and pc is behind the two operand bytes.
C39_IincAddsSignedByte ==
    step.op = "iinc" =>
        /\ status = "running"
        /\ stack = step.pre
        /\ pc = step.at + 3
        /\ local = [LocalsBefore EXCEPT ![IincPos + 1] =
                       IntV(BvAdd(LocalsBefore[IincPos + 1].bits, I32(SignedByte(IincConst))))]

\* C39 failing input: iinc 0 0xFF on local 0 = 5 leaves 260, not 4; the
\* stack, local 1 and pc are as claimed.
C39_IincByFFAdds255 ==
    /\ step.op = "iinc" /\ IincPos = 0 /\ IincConst = 255
    /\ LocalsBefore = <<IntV(I32(5)), IntV(I32(7))>>
    /\ local = <<IntV(I32(260)), IntV(I32(7))>>
    /\ stack = step.pre /\ pc = step.at + 3 /\ status = "running"

---------------------------------------------------------------------------
(* The dup family and swap.                                                *)

\* The value at position k from the top of the stack (1 is the top) and the
\* stack below the top n positions.
FromTop(k) == stack[Len(stack) - k + 1]
BelowTop(n) == SubSeq(stack, 1, Len(stack) - n)

\* The stack the instruction `name` makes of the current one.
Rearranged(name) ==
    CASE name = "dup" -> BelowTop(1) \o <<FromTop(1), FromTop(1)>>
      [] name = "dup_x1" -> BelowTop(2) \o <<FromTop(1), FromTop(2), FromTop(1)>>
      [] name = "dup_x2" -> BelowTop(3) \o <<FromTop(1), FromTop(3), FromTop(2), FromTop(1)>>
      [] name = "dup2" -> BelowTop(2) \o <<FromTop(2), FromTop(1), FromTop(2), FromTop(1)>>
      [] name = "dup2_x1" ->
             BelowTop(3) \o <<FromTop(2), FromTop(1), FromTop(3), FromTop(2), FromTop(1)>>
      [] name = "dup2_x2" ->
             BelowTop(4) \o <<FromTop(2), FromTop(1), FromTop(4), FromTop(3), FromTop(2),
                              FromTop(1)>>
      [] name = "swap" -> BelowTop(2) \o <<FromTop(1), FromTop(2)>>

====
